---- MODULE Spec2Model ----
(***************************************************************************)
(* A model of the FABER workflow engine.                                   *)
(*                                                                         *)
(*   Part I   the default pipeline graph (python/faber/workflows/graph.py) *)
(*            and the conversion of its final state into a WorkflowResult  *)
(*            (sdk/py/faber/api/workflow.py).                              *)
(*   Part II  the approval queue (sdk/py/faber/approval/queue.py).         *)
(*                                                                         *)
(* Each part has its own next-state relation and specification; the        *)
(* variables of the other part stay at their initial values.               *)
(***************************************************************************)
EXTENDS Integers, Sequences, FiniteSets, TLC

\* ------------------------------------------------------------------- bounds
\* Largest configured workflow.max_retries explored.
MaxRetriesBound == 2
\* Number of request_approval calls made on one queue.
MaxRequests == 1
\* Largest timeout_minutes explored.
MaxTimeoutMinutes == 1

\* Largest number of usage events recorded by one tracker.
MaxEvents == 3

\* Largest max_execution_time explored, in seconds.
MaxExecutionTime == 2

\* LangGraph's limit on the nodes one invocation may run (25 by default).
RecursionLimit == 6

\* Largest max_iterations explored.
MaxIterationsBound == 3

\* LLM calls after which an invocation is followed no further.
MaxLlmCalls == 6

\* Most entries a workflow log is followed to.
MaxLogEntries == 3

\* Largest limit passed to list_workflow_logs.
MaxLimit == 2

\* Processes a configuration is followed through.
MaxProcesses == 2

\* ---------------------------------------------------------------- variables
VARIABLES
    \* Part I: configuration and inputs
    max_retries,        \* config.max_retries
    skip_phases,        \* options.skip_phases
    evalScript,         \* what the evaluate agent does on its 1st, 2nd, ... call
    \* Part I: FaberState (the fields the graph reads or writes)
    current_phase,
    completed_phases,
    phase_results,
    evaluation_result,
    retry_count,
    error,
    error_phase,
    \* Part I: the graph runtime
    pc,                 \* the node LangGraph runs next, "END", or "returned"
    result,             \* the WorkflowResult run_workflow returns
    executed,           \* history: the node executions so far, in order
    spent,              \* history: cents the LLM calls of those executions
                        \* cost, counted up to the budget limit
    \* Part II: ApprovalQueue
    adapters,           \* self._adapters: the registered channel names
    notify_channels,    \* self.notify_channels
    response_channels,  \* self.response_channels
    default_timeout_minutes,
    requests,           \* the ApprovalRequest object of the latest call, by id
    pending_requests,   \* keys of self._pending_requests
    responses,          \* self._responses: request id -> ApprovalResponse
    rq_pc,              \* where the request_approval coroutine is
    rq_id,              \* id of the request of the current call (0: none yet)
    rq_chan,            \* index of the channel being notified or polled
    elapsed,            \* loop.time() - start_time, in seconds
    returned,           \* history: the responses the latest call has returned
    first_reported,     \* history: <<r>>, r the first response reported for the
                        \* request of the latest call; <<>> while there is none
    cancel_accepted,    \* history: cancel_request returned True for that request
    polled,             \* history: an adapter's poll_response has ended in this call
    timeout_arg,        \* history: the timeout_minutes argument of the latest call
    \* Part III: CostTracker (amounts in cents)
    budget_limit_usd,   \* config.budget_limit_usd
    require_approval_at,\* config.require_approval_at, in tenths
    events,             \* self.events
    total_cost_usd,     \* self.total_cost_usd
    total_tokens,       \* self.total_tokens
    budget_approved,    \* self.budget_approved
    last_call,          \* history: the method of the tracker called last
    usage_calls,        \* history: add_usage calls made since construction or reset
    ct_raised,          \* history: the exception the latest add_usage raised
    approve_called,     \* history: approve_budget was called on this tracker
                        \* since it was constructed or reset
    \* Part IV: BashToolExecutor.execute (strings are sequences of atoms)
    command_template,   \* bash_impl.command
    parameters,         \* the parameters dict, as its items in iteration order
    sandbox,            \* bash_impl.sandbox
    te_pc,              \* where the execute coroutine is
    argv,               \* the argument vector the child was started with
    child_env,          \* the environment the child was started with
    child_alive,        \* the child process runs
    stdout_open,        \* the child's end of the stdout pipe is open
    stderr_open,        \* the child's end of the stderr pipe is open
    reaped,             \* result.wait() has returned
    te_elapsed,         \* seconds since the child was started
    te_error,           \* why execute raised ToolExecutionError, or None
    te_result,          \* the dict execute returned, or <<>>
    \* Part V: HTTPToolExecutor.execute
    url,                \* the substituted URL, as urlparse reads it
    dns,                \* what resolving the URL's hostname answers now
    http_pc,            \* where the execute coroutine is
    http_error,         \* why execute raised ToolExecutionError, or None
    connected_to,       \* the address the request was sent to, or None
    \* Part VI: DefinitionRegistry
    disk_agents,        \* .fractary/agents/*.yaml: file -> its content
    disk_tools,         \* .fractary/tools/*.yaml: file -> its content
    agents_index,       \* self._agents: name -> definition
    tools_index,        \* self._tools: name -> definition
    rl_pc,              \* where the thread that runs reload() is
    rl_todo,            \* the files the discovery loop has still to visit
    pre_agents,         \* history: self._agents when reload() was called
    pre_tools,          \* history: self._tools when reload() was called
    last_read,          \* history: the latest reader call since reload() was
                        \* last called, and what it returned
    \* Part VII: WorkflowCompiler and the graph it compiles
    cw_schema,          \* self.schema: the loaded WorkflowSchema
    cw_graph,           \* the compiled edges: phase index -> its routing
    cw_pc,              \* "loaded", "compile_error", "running", "END" or
                        \* "recursion_error"
    cw_at,              \* index of the node LangGraph runs next
    cw_state,           \* the FaberState of the run
    cw_retries,         \* history: times each phase's retry edge was taken
    cw_steps,           \* nodes run so far in this invocation
    \* Part VIII: CachedClaudeAgent.invoke
    max_iterations,     \* FaberAgentConfig.max_iterations of the phase agent
    anthropic_tools,    \* self.anthropic_tools: names of the tools offered
    anthropic_messages, \* the conversation sent with the next call
    llm_response,       \* the last response: <<>> or <<[stop_reason]>>
    tool_results,       \* what _execute_tools returned for the last response
    agent_pc,           \* "idle", "responded", "tools_run", "returned"
    llm_calls,          \* history: client.messages.create calls of this invoke
    \* Part IX: DefinitionRegistry, saving and deleting
    agent_files,        \* .fractary/agents: file stem -> the definition in the file
    tool_files,         \* .fractary/tools: file stem -> the definition in the file
    saved_agents,       \* self._agents: name -> definition
    saved_tools,        \* self._tools: name -> definition
    \* Part X: LogManager
    log_level,          \* config["log_level"]
    current_workflow,   \* self._current_workflow: <<>> or <<WorkflowLog>>
    log_files,          \* logs_dir: workflow id -> the document of <id>.json
    recorded,           \* history: the entries log() has made for the workflow
                        \* started last, in order
    ended,              \* history: <<>> or <<[workflow_id, status]>>, the
                        \* end_workflow call that ended that workflow
    listed,             \* history: <<>> or <<the list_workflow_logs call made last>>
    \* Part XI: the checkpointer the engine uses
    checkpoint_config,  \* config.checkpoint: backend and whether postgres_url is set
    custom_workflow,    \* the run goes through WorkflowCompiler (options.workflow_path)
    importable,         \* the langgraph saver packages installed
    checkpointer,       \* "none" or the saver workflow.compile was given
    durable_store,      \* what the file and network stores hold: thread_id -> state
    memory_store,       \* what this process's MemorySaver holds: thread_id -> state
    last_put,           \* history: thread_id -> the state the engine put last
    processes           \* processes started so far

wfVars == <<max_retries, skip_phases, evalScript, current_phase, completed_phases,
            phase_results, evaluation_result, retry_count, error, error_phase,
            pc, result, executed, spent>>

aqVars == <<adapters, notify_channels, response_channels, default_timeout_minutes,
            requests, pending_requests, responses,
            rq_pc, rq_id, rq_chan, elapsed, returned,
            first_reported, cancel_accepted, polled, timeout_arg>>

ctVars == <<budget_limit_usd, require_approval_at, events, total_cost_usd,
            total_tokens, budget_approved, last_call, usage_calls, ct_raised,
            approve_called>>

teVars == <<command_template, parameters, sandbox, te_pc, argv, child_env,
            child_alive, stdout_open, stderr_open, reaped, te_elapsed, te_error,
            te_result>>

htVars == <<url, dns, http_pc, http_error, connected_to>>

rgVars == <<disk_agents, disk_tools, agents_index, tools_index, rl_pc, rl_todo,
            pre_agents, pre_tools, last_read>>

cwVars == <<cw_schema, cw_graph, cw_pc, cw_at, cw_state, cw_retries, cw_steps>>

agVars == <<max_iterations, anthropic_tools, anthropic_messages, llm_response,
           tool_results, agent_pc, llm_calls>>

svVars == <<agent_files, tool_files, saved_agents, saved_tools>>

lmVars == <<log_level, current_workflow, log_files, recorded, ended, listed>>

ckVars == <<checkpoint_config, custom_workflow, importable, checkpointer,
           durable_store, memory_store, last_put, processes>>

vars == <<wfVars, aqVars, ctVars, teVars, htVars, rgVars, cwVars, agVars, svVars, lmVars, ckVars>>

\* What a step of one component leaves alone: the other components.
exceptWorkflow ==
    <<aqVars, ctVars, teVars, htVars, rgVars, cwVars, agVars, svVars, lmVars, ckVars>>

exceptQueue ==
    <<wfVars, ctVars, teVars, htVars, rgVars, cwVars, agVars, svVars, lmVars, ckVars>>

exceptCost ==
    <<wfVars, aqVars, teVars, htVars, rgVars, cwVars, agVars, svVars, lmVars, ckVars>>

exceptTools ==
    <<wfVars, aqVars, ctVars, htVars, rgVars, cwVars, agVars, svVars, lmVars, ckVars>>

exceptHttp ==
    <<wfVars, aqVars, ctVars, teVars, rgVars, cwVars, agVars, svVars, lmVars, ckVars>>

exceptRegistry ==
    <<wfVars, aqVars, ctVars, teVars, htVars, cwVars, agVars, svVars, lmVars, ckVars>>

exceptCompiler ==
    <<wfVars, aqVars, ctVars, teVars, htVars, rgVars, agVars, svVars, lmVars, ckVars>>

exceptAgent ==
    <<wfVars, aqVars, ctVars, teVars, htVars, rgVars, cwVars, svVars, lmVars, ckVars>>

exceptPersistence ==
    <<wfVars, aqVars, ctVars, teVars, htVars, rgVars, cwVars, agVars, lmVars, ckVars>>

exceptLogs ==
    <<wfVars, aqVars, ctVars, teVars, htVars, rgVars, cwVars, agVars, svVars, ckVars>>

exceptCheckpoint ==
    <<wfVars, aqVars, ctVars, teVars, htVars, rgVars, cwVars, agVars, svVars, lmVars>>

\* Python's None, for the string-valued fields.
None == "None"

Min(a, b) == IF a <= b THEN a ELSE b

Range(s) == {s[i] : i \in 1..Len(s)}

\* =========================================================================
\* Part I: the default pipeline
\* =========================================================================

Phases == {"frame", "architect", "build", "evaluate", "release"}

\* The pipeline of the specification, in order.
Pipeline == <<"frame", "architect", "build", "evaluate", "release">>

\* str(e) of a raised exception.
ErrText == "err"

\* An agent invocation either returns messages or raises.
AgentOutcomes == {"ok", "raise"}

\* The evaluate agent's last message, as far as the decision parse reads it:
\* go   = "GO" in output.upper(),  nogo = "NO-GO" in output.upper().
\* "NO-GO" contains "GO", so nogo implies go.  exc: the agent raised instead.
EvalOutcomes ==
    { [exc |-> FALSE, go |-> TRUE,  nogo |-> FALSE],    \* "Decision: GO"
      [exc |-> FALSE, go |-> TRUE,  nogo |-> TRUE],     \* "Decision: NO-GO"
      [exc |-> FALSE, go |-> FALSE, nogo |-> FALSE],    \* "" or "tests fail"
      [exc |-> TRUE,  go |-> FALSE, nogo |-> FALSE] }   \* exception

\* Scripts are one entry longer than the largest retry bound.
ScriptLen == MaxRetriesBound + 1

\* The evaluate agent's outcome on its i-th call; a script that has run out
\* keeps giving its last entry.
EvalOutcomeAt(i) == evalScript[Min(i, Len(evalScript))]

\* decision = "GO" if "GO" in output.upper() and "NO-GO" not in output.upper()
\*            else "NO_GO"
ParseDecision(o) == IF o.go /\ ~o.nogo THEN "GO" ELSE "NO_GO"

\* What the script entry amounts to as an evaluate outcome.
OutcomeKind(o) == IF o.exc THEN "EXC" ELSE ParseDecision(o)

FaberPhaseResult(phase, status, err) ==
    [phase |-> phase, status |-> status, error |-> err]

\* {**state.get("phase_results", {}), phase: r}
WithResult(results, phase, r) ==
    [p \in (DOMAIN results) \cup {phase} |->
        IF p = phase THEN r ELSE results[p]]

\* All orders in which the elements of the finite set S can be listed.
RECURSIVE Orderings(_)
Orderings(S) ==
    IF S = {} THEN {<<>>}
    ELSE UNION { { <<x>> \o t : t \in Orderings(S \ {x}) } : x \in S }

\* list(set(l)): the elements of l without duplicates, in the iteration order
\* of a set of strings, which the language leaves open.
ListOfSet(l) == Orderings(Range(l))

Executions(phase) == {i \in 1..Len(executed) : executed[i].phase = phase}

Raised(phase) == \E i \in Executions(phase) : executed[i].raised

\* The skip_phases options explored.  Skipping is explored on the runs that
\* have no retry budget.
SkipOptions(retries) ==
    IF retries = 0 THEN {{}, {"architect"}} ELSE {{}}

\* run_workflow: config.phases[phase].enabled after the skip_phases loop.
enabled(phase) == phase \notin skip_phases

InitWorkflow ==
    /\ max_retries \in 0..MaxRetriesBound
    /\ skip_phases \in SkipOptions(max_retries)
    /\ evalScript \in [1..ScriptLen -> EvalOutcomes]
    /\ current_phase = ""
    /\ completed_phases = <<>>
    /\ phase_results = <<>>
    /\ evaluation_result = None
    /\ retry_count = 0
    /\ error = None
    /\ error_phase = None
    /\ pc = "frame"
    /\ result = <<>>
    /\ executed = <<>>
    /\ spent = 0

\* WorkflowConfig.phases as constructed by default: the phases that ask for
\* human approval.
human_approval ==
    [frame |-> FALSE, architect |-> TRUE, build |-> FALSE, evaluate |-> FALSE,
     release |-> TRUE]

\* FaberState.budget_limit_usd as create_initial_state receives it: the
\* default of CostConfig, 10 dollars, in cents.
state_budget_limit_usd == 1000

\* What the LLM calls of one node execution may cost, in cents.
PhaseCosts == {0, 500}

\* The phase agent of a node runs: its LLM calls are paid for.  No node
\* records the amount in total_cost_usd or in a CostTracker.
AgentSpends ==
    \E cost \in PhaseCosts : spent' = Min(spent + cost, state_budget_limit_usd)

\* A node that appends itself to completed_phases on success (frame,
\* architect, release); `next` is the node its outgoing edge leads to.
SimpleNode(phase, next) ==
    /\ pc = phase
    /\ \E outcome \in AgentOutcomes :
        /\ IF outcome = "ok"
              THEN /\ completed_phases' = Append(completed_phases, phase)
                   /\ phase_results' = WithResult(phase_results, phase,
                                          FaberPhaseResult(phase, "completed", None))
                   /\ UNCHANGED <<error, error_phase>>
              ELSE /\ error' = ErrText
                   /\ error_phase' = phase
                   /\ phase_results' = WithResult(phase_results, phase,
                                          FaberPhaseResult(phase, "failed", ErrText))
                   /\ UNCHANGED completed_phases
        /\ executed' = Append(executed, [phase |-> phase, raised |-> outcome = "raise"])
    /\ current_phase' = phase
    /\ AgentSpends
    /\ pc' = next
    /\ UNCHANGED <<max_retries, skip_phases, evalScript, evaluation_result, retry_count, result>>

frame_node == SimpleNode("frame", "architect") /\ UNCHANGED exceptWorkflow

architect_node == SimpleNode("architect", "build") /\ UNCHANGED exceptWorkflow

release_node == SimpleNode("release", "END") /\ UNCHANGED exceptWorkflow

build_node ==
    /\ pc = "build"
    /\ \E outcome \in AgentOutcomes :
        /\ IF outcome = "ok"
              THEN /\ completed_phases' \in ListOfSet(Append(completed_phases, "build"))
                   /\ phase_results' = WithResult(phase_results, "build",
                                          FaberPhaseResult("build", "completed", None))
                   /\ UNCHANGED <<error, error_phase>>
              ELSE /\ error' = ErrText
                   /\ error_phase' = "build"
                   /\ phase_results' = WithResult(phase_results, "build",
                                          FaberPhaseResult("build", "failed", ErrText))
                   /\ UNCHANGED completed_phases
        /\ executed' = Append(executed, [phase |-> "build", raised |-> outcome = "raise"])
    /\ current_phase' = "build"
    /\ AgentSpends
    /\ pc' = "evaluate"
    /\ UNCHANGED <<max_retries, skip_phases, evalScript, evaluation_result, retry_count, result>>
    /\ UNCHANGED exceptWorkflow

\* A retry edge that sends the run back to planning.
should_retry_build_replans(eval_result, retries) ==
    IF eval_result = "GO" THEN "release"
    ELSE IF retries < max_retries THEN "architect"
    ELSE "release"

\* A retry bound read against the count before this evaluation, inclusively.
should_retry_build_precount(eval_result, retries) ==
    IF eval_result = "GO" THEN "release"
    ELSE IF retries - 1 <= max_retries THEN "build"
    ELSE "release"

\* A retry bound that lets the loop run once more than configured.
should_retry_build_inclusive(eval_result, retries) ==
    IF eval_result = "GO" THEN "release"
    ELSE IF retries <= max_retries THEN "build"
    ELSE "release"

\* The conditional edge out of evaluate, read on the state evaluate produced.
should_retry_build(eval_result, retries) ==
    IF eval_result = "GO" THEN "release"
    ELSE IF retries < max_retries THEN "build"
    ELSE "release"

\* Never wired into the graph: no edge of create_faber_workflow uses it.
check_for_errors ==
    IF error # None /\ error_phase \in {"frame", "architect"}
    THEN "end" ELSE "continue"

\* An evaluate node whose exception path leaves retry_count alone.
evaluate_node_exception_uncounted ==
    /\ pc = "evaluate"
    /\ LET o == EvalOutcomeAt(Cardinality(Executions("evaluate")) + 1)
           decision == IF o.exc THEN "NO_GO" ELSE ParseDecision(o)
           new_retry_count == IF decision = "NO_GO" /\ ~o.exc THEN retry_count + 1
                              ELSE retry_count
       IN /\ evaluation_result' = decision
          /\ retry_count' = new_retry_count
          /\ IF o.exc
                THEN /\ error' = ErrText
                     /\ error_phase' = "evaluate"
                     /\ phase_results' = WithResult(phase_results, "evaluate",
                                            FaberPhaseResult("evaluate", "failed", ErrText))
                ELSE /\ phase_results' = WithResult(phase_results, "evaluate",
                                            FaberPhaseResult("evaluate", "completed", None))
                     /\ UNCHANGED <<error, error_phase>>
          /\ executed' = Append(executed, [phase |-> "evaluate", raised |-> o.exc])
          /\ pc' = should_retry_build(decision, new_retry_count)
    /\ current_phase' = "evaluate"
    /\ AgentSpends
    /\ UNCHANGED <<max_retries, skip_phases, evalScript, completed_phases, result>>
    /\ UNCHANGED exceptWorkflow

evaluate_node ==
    /\ pc = "evaluate"
    /\ LET o == EvalOutcomeAt(Cardinality(Executions("evaluate")) + 1)
           decision == IF o.exc THEN "NO_GO" ELSE ParseDecision(o)
           new_retry_count == IF decision = "NO_GO" THEN retry_count + 1
                              ELSE retry_count
       IN /\ evaluation_result' = decision
          /\ retry_count' = new_retry_count
          /\ IF o.exc
                THEN /\ error' = ErrText
                     /\ error_phase' = "evaluate"
                     /\ phase_results' = WithResult(phase_results, "evaluate",
                                            FaberPhaseResult("evaluate", "failed", ErrText))
                ELSE /\ phase_results' = WithResult(phase_results, "evaluate",
                                            FaberPhaseResult("evaluate", "completed", None))
                     /\ UNCHANGED <<error, error_phase>>
          /\ executed' = Append(executed, [phase |-> "evaluate", raised |-> o.exc])
          /\ pc' = should_retry_build(decision, new_retry_count)
    /\ current_phase' = "evaluate"
    /\ AgentSpends
    /\ UNCHANGED <<max_retries, skip_phases, evalScript, completed_phases, result>>
    /\ UNCHANGED exceptWorkflow

\* _state_to_result, applied by run_workflow to the state ainvoke returns.
state_to_result ==
    [status            |-> IF error # None THEN "failed" ELSE "completed",
     completed_phases  |-> completed_phases,
     error             |-> error,
     error_phase       |-> error_phase,
     retry_count       |-> retry_count,
     evaluation_result |-> evaluation_result]

run_workflow_return ==
    /\ pc = "END"
    /\ result' = state_to_result
    /\ pc' = "returned"
    /\ UNCHANGED <<max_retries, skip_phases, evalScript, current_phase, completed_phases,
                   phase_results, evaluation_result, retry_count, error,
                   error_phase, executed, spent>>
    /\ UNCHANGED exceptWorkflow


\* =========================================================================
\* Part II: the approval queue
\* =========================================================================

Channels == {"cli", "web"}

\* The channel lists the queue is constructed with.  A listed channel with no
\* registered adapter is skipped by every loop over the list, so shorter lists
\* behave like this one with fewer adapters registered.
ChannelList == <<"cli", "web">>

\* uuid-derived request ids: every call gets a fresh one.
RequestIds == 1..MaxRequests

\* timeout_seconds = request.timeout_minutes * 60
SecondsPerMinute == 60

\* Decisions a human gives through an adapter or through submit_response.
HumanDecisions == {"approve", "reject"}

ApprovalResponse(id, decision, comment, channel) ==
    [request_id |-> id, decision |-> decision, comment |-> comment,
     channel |-> channel]

\* What adapter `ch` may hand back from poll_response for request id.
AdapterResponses(id, ch) ==
    { ApprovalResponse(id, d, None, ch) : d \in HumanDecisions }

\* What a caller of submit_response may hand in for request id.
SubmittedResponses(id) ==
    { ApprovalResponse(id, d, "submitted", None) : d \in HumanDecisions }

TimeoutResponse(id) == ApprovalResponse(id, "timeout", "Request timed out", None)

CancelledResponse(id) ==
    ApprovalResponse(id, "cancelled", "Request was cancelled", None)

\* timeout_minutes or self.default_timeout_minutes  (None and 0 are both falsy)
EffectiveTimeout(timeout_minutes) ==
    IF timeout_minutes = 0 THEN default_timeout_minutes ELSE timeout_minutes

\* The least index >= from of a channel of `chans` that has a registered
\* adapter (`if channel in self._adapters`), or 0 when there is none.
NextRegistered(chans, from) ==
    LET S == {i \in from..Len(chans) : chans[i] \in adapters}
    IN IF S = {} THEN 0 ELSE CHOOSE i \in S : \A j \in S : i <= j

\* A clock restarted at every pass of the loop.
ElapsedSinceWake(el, dt) == dt

\* elapsed = loop.time() - start_time, after dt more seconds have passed.
ElapsedAfter(el, dt) == el + dt

\* How long `await asyncio.sleep(1)` and the polls of one pass may take:
\* at least the second asked for.
SleepDurations == {1, 2}

\* dict without key k
Without(d, k) == [x \in (DOMAIN d) \ {k} |-> d[x]]

\* dict with d[k] = v
With(d, k, v) == [x \in (DOMAIN d) \cup {k} |-> IF x = k THEN v ELSE d[x]]

SetStatus(reqs, id, status) == [reqs EXCEPT ![id].status = status]

\* request_approval's tail: _wait_for_response returned `response` for
\* request id; the request leaves _pending_requests and the call returns.
\* `ret` is what the call had returned before (nothing).
ReturnResponse(id, reqs, pend, rsps, response, ret) ==
    /\ requests' = reqs
    /\ pending_requests' = pend \ {id}
    /\ responses' = rsps
    /\ returned' = Append(ret, response)
    /\ rq_pc' = "done"
    /\ rq_chan' = 0

\* One pass of the `while True` of _wait_for_response from its head up to its
\* first await, for request id with `el` seconds elapsed.
WaitLoopHead(id, reqs, pend, el, ret) ==
    /\ elapsed' = el
    /\ IF id \in DOMAIN responses
          THEN ReturnResponse(id, reqs, pend, Without(responses, id), responses[id],
                              ret)
       ELSE IF el >= reqs[id].timeout_minutes * SecondsPerMinute
          THEN ReturnResponse(id, SetStatus(reqs, id, "timeout"), pend, responses,
                              TimeoutResponse(id), ret)
       ELSE /\ requests' = reqs
            /\ pending_requests' = pend
            /\ returned' = ret
            /\ UNCHANGED responses
            /\ LET n == NextRegistered(response_channels, 1)
               IN IF n # 0 THEN rq_pc' = "poll" /\ rq_chan' = n
                           ELSE rq_pc' = "sleep" /\ rq_chan' = 0

\* The record of the first report: kept once made.
FirstOf(first, response) == IF first = <<>> THEN <<response>> ELSE first

InitQueue ==
    /\ adapters \in SUBSET Channels
    /\ notify_channels = ChannelList
    /\ response_channels = ChannelList
    /\ default_timeout_minutes \in 0..MaxTimeoutMinutes
    /\ requests = <<>>
    /\ pending_requests = {}
    /\ responses = <<>>
    /\ rq_pc = "idle"
    /\ rq_id = 0
    /\ rq_chan = 0
    /\ elapsed = 0
    /\ returned = <<>>
    /\ first_reported = <<>>
    /\ cancel_accepted = FALSE
    /\ polled = FALSE
    /\ timeout_arg = 0

\* request_approval up to its first await.  The request object of the call
\* before is no longer referenced by the queue.
request_approval ==
    /\ rq_pc \in {"idle", "done"}
    /\ rq_id < MaxRequests
    /\ \E timeout_minutes \in 0..MaxTimeoutMinutes :
        LET id == rq_id + 1
            request == [id |-> id, status |-> "pending",
                        timeout_minutes |-> EffectiveTimeout(timeout_minutes)]
            reqs == [x \in {id} |-> request]
            pend == pending_requests \cup {id}
            n == NextRegistered(notify_channels, 1)
        IN /\ rq_id' = id
           /\ timeout_arg' = timeout_minutes
           /\ first_reported' = <<>>
           /\ cancel_accepted' = FALSE
           /\ polled' = FALSE
           /\ IF n # 0
                 THEN /\ rq_pc' = "notify"
                      /\ rq_chan' = n
                      /\ requests' = reqs
                      /\ pending_requests' = pend
                      /\ elapsed' = 0
                      /\ returned' = <<>>
                      /\ UNCHANGED responses
                 ELSE WaitLoopHead(id, reqs, pend, 0, <<>>)
    /\ UNCHANGED <<adapters, notify_channels, response_channels,
                   default_timeout_minutes>>
    /\ UNCHANGED exceptQueue

\* _send_notifications: the await of one adapter's send_notification ends
\* (normally or with an Exception, which is caught and printed).
send_notification ==
    /\ rq_pc = "notify"
    /\ \E outcome \in {"ok", "raise"} :
        LET n == NextRegistered(notify_channels, rq_chan + 1)
        IN IF n # 0
              THEN /\ rq_chan' = n
                   /\ UNCHANGED <<rq_pc, requests, pending_requests, responses,
                                  elapsed, returned>>
              ELSE WaitLoopHead(rq_id, requests, pending_requests, 0, returned)
    /\ UNCHANGED <<adapters, notify_channels, response_channels,
                   default_timeout_minutes, rq_id,
                   first_reported, cancel_accepted, polled, timeout_arg>>
    /\ UNCHANGED exceptQueue

\* The await of one adapter's poll_response ends: with a response, with None,
\* or with an Exception (swallowed).
poll_response ==
    /\ rq_pc = "poll"
    /\ LET ch == response_channels[rq_chan]
       IN \/ \E response \in AdapterResponses(rq_id, ch) :
                /\ ReturnResponse(rq_id,
                      SetStatus(requests, rq_id,
                                IF response.decision = "approve" THEN "approved"
                                ELSE "rejected"),
                      pending_requests, responses, response, returned)
                /\ first_reported' = FirstOf(first_reported, response)
                /\ UNCHANGED elapsed
          \/ \E outcome \in {"none", "raise"} :
                LET n == NextRegistered(response_channels, rq_chan + 1)
                IN /\ IF n # 0 THEN rq_pc' = "poll" /\ rq_chan' = n
                               ELSE rq_pc' = "sleep" /\ rq_chan' = 0
                   /\ UNCHANGED <<requests, pending_requests, responses,
                                  elapsed, returned, first_reported>>
    /\ polled' = TRUE
    /\ UNCHANGED <<adapters, notify_channels, response_channels,
                   default_timeout_minutes, rq_id, cancel_accepted, timeout_arg>>
    /\ UNCHANGED exceptQueue

\* `await asyncio.sleep(1)` ends and the loop goes round.
sleep ==
    /\ rq_pc = "sleep"
    /\ \E dt \in SleepDurations :
        WaitLoopHead(rq_id, requests, pending_requests, ElapsedAfter(elapsed, dt),
                     returned)
    /\ UNCHANGED <<adapters, notify_channels, response_channels,
                   default_timeout_minutes, rq_id,
                   first_reported, cancel_accepted, polled, timeout_arg>>
    /\ UNCHANGED exceptQueue

\* submit_response, called by another task while request_approval awaits.
submit_response ==
    /\ \E id \in RequestIds : \E response \in SubmittedResponses(id) :
        IF response.request_id \in pending_requests
        THEN /\ responses' = With(responses, response.request_id, response)
             /\ first_reported' = FirstOf(first_reported, response)
        ELSE UNCHANGED <<responses, first_reported>>
    /\ UNCHANGED <<adapters, notify_channels, response_channels,
                   default_timeout_minutes, requests, pending_requests,
                   rq_pc, rq_id, rq_chan, elapsed, returned,
                   cancel_accepted, polled, timeout_arg>>
    /\ UNCHANGED exceptQueue

\* cancel_request, called by another task while request_approval awaits.
cancel_request ==
    /\ \E request_id \in RequestIds :
        IF request_id \in pending_requests
        THEN /\ requests' = SetStatus(requests, request_id, "cancelled")
             /\ responses' = With(responses, request_id, CancelledResponse(request_id))
             /\ first_reported' = FirstOf(first_reported, CancelledResponse(request_id))
             /\ cancel_accepted' = TRUE
        ELSE UNCHANGED <<requests, responses, first_reported, cancel_accepted>>
    /\ UNCHANGED <<adapters, notify_channels, response_channels,
                   default_timeout_minutes, pending_requests,
                   rq_pc, rq_id, rq_chan, elapsed, returned,
                   polled, timeout_arg>>
    /\ UNCHANGED exceptQueue

\* The steps of a request_approval call that is under way.
RequesterStep == send_notification \/ poll_response \/ sleep

NextQueue ==
    \/ request_approval
    \/ send_notification
    \/ poll_response
    \/ sleep
    \/ submit_response
    \/ cancel_request

\* =========================================================================
\* Part III: the cost tracker
\* =========================================================================
\* Amounts of money are whole cents and ratios are compared exactly; the
\* rounding of Python floats is not modelled.

\* DEFAULT_PRICING, per million tokens.
DEFAULT_PRICING ==
    ("claude-opus-4-20250514" :> [input_price |-> 1500, output_price |-> 7500])
    @@ ("claude-sonnet-4-20250514" :> [input_price |-> 300, output_price |-> 1500])
    @@ ("claude-3-5-haiku-20241022" :> [input_price |-> 25, output_price |-> 125])
    @@ ("gpt-4o" :> [input_price |-> 250, output_price |-> 1000])
    @@ ("gpt-4o-mini" :> [input_price |-> 15, output_price |-> 60])

\* The price per million tokens of a model that has no pricing entry.
FallbackPrice == 500

TokensPerMillion == 1000000

\* The ratio at which the budget is exhausted (1.0), in tenths.
HardLimitRatio == 10

\* Inputs explored: a priced model and one without an entry; no tokens or a
\* fifth of a million (every price then gives whole cents); no limit or
\* 2.00 USD; approval at 0.5 or at 0.9.
CostModels == {"claude-sonnet-4-20250514", "unlisted-model"}

TokenCounts == {0, 200000}

BudgetLimits == {-100, 0, 200}

ApprovalThresholds == {5, 9}

\* ModelPricing.calculate_cost
calculate_cost(pricing, input_tokens, output_tokens) ==
    (input_tokens * pricing.input_price) \div TokensPerMillion
    + (output_tokens * pricing.output_price) \div TokensPerMillion

\* The cost add_usage computes for one event.
CostOf(model, input_tokens, output_tokens) ==
    IF model \in DOMAIN DEFAULT_PRICING
    THEN calculate_cost(DEFAULT_PRICING[model], input_tokens, output_tokens)
    ELSE ((input_tokens + output_tokens) * FallbackPrice) \div TokensPerMillion

UsageEvent(model, input_tokens, output_tokens, cost) ==
    [model |-> model, input_tokens |-> input_tokens,
     output_tokens |-> output_tokens, cost_usd |-> cost]

\* total / limit >= tenths / 10, for limit > 0.
RatioAtLeast(total, limit, tenths) == total * 10 >= tenths * limit

\* A total that is kept in whole dollars.
AddCostWholeDollars(total, cost) == total + (cost \div 100) * 100

\* self.total_cost_usd += cost
AddCost(total, cost) == total + cost

\* A check that asks for approval before it looks at the hard limit.
check_budget_soft_first(total, limit, threshold, approved) ==
    IF limit <= 0 THEN None
    ELSE IF RatioAtLeast(total, limit, threshold) /\ ~approved
            THEN "BudgetApprovalRequired"
    ELSE IF RatioAtLeast(total, limit, HardLimitRatio) THEN "BudgetExceeded"
    ELSE None

\* A check that asks for approval whether or not it was given.
check_budget_always_asks(total, limit, threshold, approved) ==
    IF limit <= 0 THEN None
    ELSE IF RatioAtLeast(total, limit, HardLimitRatio) THEN "BudgetExceeded"
    ELSE IF RatioAtLeast(total, limit, threshold) THEN "BudgetApprovalRequired"
    ELSE None

\* _check_budget: the exception it raises, or None.
check_budget(total, limit, threshold, approved) ==
    IF limit <= 0 THEN None
    ELSE IF RatioAtLeast(total, limit, HardLimitRatio) THEN "BudgetExceeded"
    ELSE IF RatioAtLeast(total, limit, threshold) /\ ~approved
            THEN "BudgetApprovalRequired"
    ELSE None

\* An is_within_budget that compares against the limit whatever its sign.
is_within_budget_unguarded(total, limit) == total < limit

\* is_within_budget
is_within_budget(total, limit) == IF limit <= 0 THEN TRUE ELSE total < limit

\* config.warning_threshold, in tenths
warning_threshold == 8

\* is_warning
is_warning(total, limit) ==
    IF limit <= 0 THEN FALSE ELSE RatioAtLeast(total, limit, warning_threshold)

InitCost ==
    /\ budget_limit_usd \in BudgetLimits
    /\ require_approval_at \in ApprovalThresholds
    /\ events = <<>>
    /\ total_cost_usd = 0
    /\ total_tokens = 0
    /\ budget_approved = FALSE
    /\ last_call = ""
    /\ usage_calls = 0
    /\ ct_raised = None
    /\ approve_called = FALSE

\* An add_usage that checks the budget first and records nothing when the
\* check raises.
add_usage_checks_first ==
    /\ Len(events) < MaxEvents
    /\ \E model \in CostModels, input_tokens \in TokenCounts,
          output_tokens \in TokenCounts :
        LET cost == CostOf(model, input_tokens, output_tokens)
            total == AddCost(total_cost_usd, cost)
            raised == check_budget(total, budget_limit_usd,
                                   require_approval_at, budget_approved)
        IN /\ ct_raised' = raised
           /\ IF raised = None
                 THEN /\ events' = Append(events,
                               UsageEvent(model, input_tokens, output_tokens, cost))
                      /\ total_cost_usd' = total
                      /\ total_tokens' = total_tokens + input_tokens + output_tokens
                 ELSE UNCHANGED <<events, total_cost_usd, total_tokens>>
    /\ last_call' = "add_usage"
    /\ usage_calls' = usage_calls + 1
    /\ UNCHANGED <<budget_limit_usd, require_approval_at, budget_approved,
                   approve_called>>
    /\ UNCHANGED exceptCost

\* add_usage: the event is recorded and the totals are updated before
\* _check_budget runs, so they stay when it raises.
add_usage ==
    /\ Len(events) < MaxEvents
    /\ \E model \in CostModels, input_tokens \in TokenCounts,
          output_tokens \in TokenCounts :
        LET cost == CostOf(model, input_tokens, output_tokens)
            total == AddCost(total_cost_usd, cost)
        IN /\ events' = Append(events,
                               UsageEvent(model, input_tokens, output_tokens, cost))
           /\ total_cost_usd' = total
           /\ total_tokens' = total_tokens + input_tokens + output_tokens
           /\ ct_raised' = check_budget(total, budget_limit_usd,
                                        require_approval_at, budget_approved)
    /\ last_call' = "add_usage"
    /\ usage_calls' = usage_calls + 1
    /\ UNCHANGED <<budget_limit_usd, require_approval_at, budget_approved,
                   approve_called>>
    /\ UNCHANGED exceptCost

approve_budget ==
    /\ budget_approved' = TRUE
    /\ approve_called' = TRUE
    /\ last_call' = "approve_budget"
    /\ UNCHANGED <<budget_limit_usd, require_approval_at, events, total_cost_usd,
                   total_tokens, usage_calls, ct_raised>>
    /\ UNCHANGED exceptCost

reset ==
    /\ events' = <<>>
    /\ total_cost_usd' = 0
    /\ total_tokens' = 0
    /\ budget_approved' = FALSE
    /\ approve_called' = FALSE
    /\ last_call' = "reset"
    /\ usage_calls' = 0
    /\ UNCHANGED <<budget_limit_usd, require_approval_at, ct_raised>>
    /\ UNCHANGED exceptCost

NextCost ==
    \/ add_usage
    \/ approve_budget
    \/ reset

\* =========================================================================
\* Part IV: the shell tool executor
\* =========================================================================
\* A string is a sequence of atoms: a word, one of the characters " ", "/"
\* and ";", or the text of a placeholder, "${a}" or "${b}".

ParamKeys == {"a", "b"}

\* f"${{{key}}}"
Placeholder == [a |-> "${a}", b |-> "${b}"]

RECURSIVE Concat(_)
\* The concatenation of a sequence of strings.
Concat(ss) == IF ss = <<>> THEN <<>> ELSE Head(ss) \o Concat(Tail(ss))

\* Length of the run of atoms before the first blank of t.
WordLen(t) ==
    IF \E i \in 1..Len(t) : t[i] = " "
    THEN (CHOOSE i \in 1..Len(t) : t[i] = " " /\ \A j \in 1..(i - 1) : t[j] # " ") - 1
    ELSE Len(t)

RECURSIVE shlex_split(_)
\* shlex.split, for templates without quotes or escapes: the runs of atoms
\* between blanks.
shlex_split(t) ==
    IF t = <<>> THEN <<>>
    ELSE IF Head(t) = " " THEN shlex_split(Tail(t))
    ELSE <<SubSeq(t, 1, WordLen(t))>> \o shlex_split(SubSeq(t, WordLen(t) + 1, Len(t)))

\* str.replace(placeholder, str_value)
Replace(str, placeholder, str_value) ==
    Concat([i \in 1..Len(str) |->
              IF str[i] = placeholder THEN str_value ELSE <<str[i]>>])

RECURSIVE SubstituteAll(_, _)
\* The inner loop of _parse_command_to_argv: one replace per parameter, in
\* the dict's order, each applied to the result of the one before.
SubstituteAll(token, params) ==
    IF params = <<>> THEN token
    ELSE SubstituteAll(Replace(token, Placeholder[params[1].key], params[1].value),
                       Tail(params))

\* _parse_command_to_argv: the argv, or the ValueError of an empty template.
parse_command_to_argv(template, params) ==
    LET tokens == shlex_split(template)
    IN IF tokens = <<>>
       THEN [ok |-> FALSE, argv |-> <<>>]
       ELSE [ok |-> TRUE,
             argv |-> [i \in 1..Len(tokens) |-> SubstituteAll(tokens[i], params)]]

\* argv[0].split("/")[-1]
BaseName(token) ==
    LET slashes == {i \in 1..Len(token) : token[i] = "/"}
    IN IF slashes = {} THEN token
       ELSE SubSeq(token, (CHOOSE i \in slashes : \A j \in slashes : j <= i) + 1,
                   Len(token))

\* A validation that lets a command given with a path go unchecked.
validate_command_sandbox_bare_only(args, sb) ==
    \/ sb.allowlisted_commands = {}
    \/ args[1] # BaseName(args[1])
    \/ args[1] \in sb.allowlisted_commands

\* _validate_command_sandbox: TRUE when it raises nothing.
validate_command_sandbox(args, sb) ==
    sb.allowlisted_commands = {} \/ BaseName(args[1]) \in sb.allowlisted_commands

\* os.environ of the parent process.
os_environ == [PATH |-> "/usr/bin", HOME |-> "/root", API_TOKEN |-> "secret"]

\* _build_environment: a dict (a function here), or None when it is empty.
build_environment(sb) ==
    LET names == sb.env_vars \cap DOMAIN os_environ
    IN IF names = {} THEN [is_none |-> TRUE, env |-> <<>>]
       ELSE [is_none |-> FALSE, env |-> [v \in names |-> os_environ[v]]]

\* What create_subprocess_exec(env=...) gives the child: env, or the parent's
\* whole environment when env is None.
ChildEnvironment(built) == IF built.is_none THEN os_environ ELSE built.env

\* Inputs explored.
Templates ==
    { <<>>,
      <<"echo", " ", "${a}">>,
      <<"echo", " ", "${a}", " ", " ", "x", "${b}">>,
      <<"/", "bin", "/", "rm", " ", "${a}">> }

ParamValues == { <<"x">>, <<";", " ", "rm">>, <<"${b}">> }

KeyOrders == { <<"a">>, <<"a", "b">>, <<"b", "a">> }

ParameterMaps ==
    UNION { { [i \in 1..Len(ks) |-> [key |-> ks[i], value |-> vals[i]]] :
                vals \in [1..Len(ks) -> ParamValues] } : ks \in KeyOrders }

Sandboxes ==
    [enabled : BOOLEAN,
     allowlisted_commands : { {}, {<<"echo">>}, {<<"rm">>} },
     env_vars : { {}, {"PATH"}, {"EDITOR"} },
     max_execution_time : 1..MaxExecutionTime]

InitTools ==
    /\ command_template \in Templates
    /\ parameters \in ParameterMaps
    /\ sandbox \in Sandboxes
    /\ te_pc = "idle"
    /\ argv = <<>>
    /\ child_env = <<>>
    /\ child_alive = FALSE
    /\ stdout_open = FALSE
    /\ stderr_open = FALSE
    /\ reaped = FALSE
    /\ te_elapsed = 0
    /\ te_error = None
    /\ te_result = <<>>

\* execute raises ToolExecutionError before or instead of starting a child.
RaiseEarly(why) ==
    /\ te_pc' = "raised"
    /\ te_error' = why
    /\ UNCHANGED <<argv, child_env, child_alive, stdout_open, stderr_open>>

\* execute, up to its first await on the child's pipes: the template is
\* parsed, the sandbox consulted and the child started.
execute ==
    /\ te_pc = "idle"
    /\ LET parsed == parse_command_to_argv(command_template, parameters)
       IN IF ~parsed.ok THEN RaiseEarly("parse")
          ELSE IF sandbox.enabled /\ ~validate_command_sandbox(parsed.argv, sandbox)
             THEN RaiseEarly("sandbox")
          ELSE \/ RaiseEarly("spawn")
               \/ /\ te_pc' = "reading"
                  /\ argv' = parsed.argv
                  /\ child_env' = ChildEnvironment(build_environment(sandbox))
                  /\ child_alive' = TRUE
                  /\ stdout_open' = TRUE
                  /\ stderr_open' = TRUE
                  /\ te_error' = None
    /\ UNCHANGED <<command_template, parameters, sandbox, reaped, te_elapsed,
                   te_result>>
    /\ UNCHANGED exceptTools

\* The child closes one of its output streams and goes on running.
child_closes_stream ==
    /\ child_alive
    /\ \/ stdout_open /\ stdout_open' = FALSE /\ UNCHANGED stderr_open
       \/ stderr_open /\ stderr_open' = FALSE /\ UNCHANGED stdout_open
    /\ UNCHANGED <<command_template, parameters, sandbox, te_pc, argv, child_env,
                   child_alive, reaped, te_elapsed, te_error, te_result>>
    /\ UNCHANGED exceptTools

\* The child exits of its own accord; its streams reach end of file.
child_exits ==
    /\ child_alive
    /\ child_alive' = FALSE
    /\ stdout_open' = FALSE
    /\ stderr_open' = FALSE
    /\ UNCHANGED <<command_template, parameters, sandbox, te_pc, argv, child_env,
                   reaped, te_elapsed, te_error, te_result>>
    /\ UNCHANGED exceptTools

\* A second passes while execute awaits the child.  wait_for's timer is due
\* at max_execution_time; nothing is due while execute awaits result.wait().
second_passes ==
    /\ \/ te_pc = "reading" /\ te_elapsed < sandbox.max_execution_time
       \/ te_pc = "wait" /\ te_elapsed <= sandbox.max_execution_time
    /\ te_elapsed' = te_elapsed + 1
    /\ UNCHANGED <<command_template, parameters, sandbox, te_pc, argv, child_env,
                   child_alive, stdout_open, stderr_open, reaped, te_error,
                   te_result>>
    /\ UNCHANGED exceptTools

\* Both read_limited tasks have met end of file: gather and wait_for return
\* and execute goes on to `await result.wait()`.
streams_read ==
    /\ te_pc = "reading"
    /\ ~stdout_open /\ ~stderr_open
    /\ te_pc' = "wait"
    /\ UNCHANGED <<command_template, parameters, sandbox, argv, child_env,
                   child_alive, stdout_open, stderr_open, reaped, te_elapsed,
                   te_error, te_result>>
    /\ UNCHANGED exceptTools

\* wait_for raises TimeoutError: result.kill().
timeout_kill ==
    /\ te_pc = "reading"
    /\ te_elapsed >= sandbox.max_execution_time
    /\ te_pc' = "killed"
    /\ child_alive' = FALSE
    /\ stdout_open' = FALSE
    /\ stderr_open' = FALSE
    /\ UNCHANGED <<command_template, parameters, sandbox, argv, child_env, reaped,
                   te_elapsed, te_error, te_result>>
    /\ UNCHANGED exceptTools

\* `await result.wait()` returns after the kill; execute raises the timeout error.
timeout_raise ==
    /\ te_pc = "killed"
    /\ reaped' = TRUE
    /\ te_pc' = "raised"
    /\ te_error' = "timeout"
    /\ UNCHANGED <<command_template, parameters, sandbox, argv, child_env,
                   child_alive, stdout_open, stderr_open, te_elapsed, te_result>>
    /\ UNCHANGED exceptTools

\* `await result.wait()` returns once the child has exited; execute returns.
wait_return ==
    /\ te_pc = "wait"
    /\ ~child_alive
    /\ reaped' = TRUE
    /\ te_pc' = "returned"
    /\ \E returncode \in {0, 1} :
          te_result' = [status |-> IF returncode = 0 THEN "success" ELSE "failure",
                        exit_code |-> returncode]
    /\ UNCHANGED <<command_template, parameters, sandbox, argv, child_env,
                   child_alive, stdout_open, stderr_open, te_elapsed, te_error>>
    /\ UNCHANGED exceptTools

NextTools ==
    \/ execute
    \/ child_closes_stream
    \/ child_exits
    \/ second_passes
    \/ streams_read
    \/ timeout_kill
    \/ timeout_raise
    \/ wait_return

\* =========================================================================
\* Part V: the HTTP tool executor
\* =========================================================================
\* An address is named by the class the ipaddress module puts it in; a
\* hostname is the sequence of its lower-case labels.

BlockedAddressClasses ==
    {"private", "loopback", "link_local", "multicast", "reserved", "unspecified"}

\* _validate_ip_address: TRUE when it raises nothing.
validate_ip_address(ip) == ip \notin BlockedAddressClasses

blocked_hosts ==
    { <<"localhost">>, <<"localhost", "localdomain">>, <<"ip6-localhost">>,
      <<"ip6-loopback">> }

\* The blocked suffixes, each without its leading dot.
blocked_suffixes ==
    {"local", "localhost", "internal", "lan", "home", "corp", "intranet"}

\* hostname_lower.endswith(blocked_suffixes)
EndsWithBlockedSuffix(hostname) ==
    Len(hostname) >= 2 /\ hostname[Len(hostname)] \in blocked_suffixes

IpHost(ip) == [kind |-> "ip", ip |-> ip, name |-> <<>>]

NameHost(name) == [kind |-> "name", ip |-> "", name |-> name]

NoHost == [kind |-> "none", ip |-> "", name |-> <<>>]

\* _validate_url_ssrf: the reason it raises, or None.  answers is what
\* getaddrinfo returns for the hostname at this moment; the empty set stands
\* for socket.gaierror.
validate_url_ssrf(u, answers) ==
    IF u.scheme \notin {"http", "https"} THEN "scheme"
    ELSE IF u.host.kind = "none" THEN "no_hostname"
    ELSE IF u.host.kind = "ip"
         THEN (IF validate_ip_address(u.host.ip) THEN None ELSE "blocked_ip")
    ELSE IF u.host.name \in blocked_hosts THEN "blocked_host"
    ELSE IF EndsWithBlockedSuffix(u.host.name) THEN "blocked_suffix"
    ELSE IF answers = {} THEN "resolve"
    ELSE IF \A ip \in answers : validate_ip_address(ip) THEN None
    ELSE "blocked_ip"

\* Inputs explored.
Schemes == {"https", "file"}

Hosts ==
    { NoHost, IpHost("public"), IpHost("loopback"), IpHost("link_local"),
      NameHost(<<"localhost">>), NameHost(<<"db", "internal">>),
      NameHost(<<"example", "com">>) }

DnsAnswers == SUBSET {"public", "private", "loopback"}

InitHttp ==
    /\ url \in [scheme : Schemes, host : Hosts]
    /\ dns \in DnsAnswers
    /\ http_pc = "idle"
    /\ http_error = None
    /\ connected_to = None

\* execute up to the await of client.request: the URL is validated, its
\* hostname resolved and every answer checked.
http_execute ==
    /\ http_pc = "idle"
    /\ LET why == validate_url_ssrf(url, dns)
       IN IF why = None
          THEN http_pc' = "validated" /\ UNCHANGED http_error
          ELSE http_pc' = "raised" /\ http_error' = why
    /\ UNCHANGED <<url, dns, connected_to>>
    /\ UNCHANGED exceptHttp

\* The name's DNS records change.
dns_changes ==
    /\ \E answers \in DnsAnswers : answers # dns /\ dns' = answers
    /\ UNCHANGED <<url, http_pc, http_error, connected_to>>
    /\ UNCHANGED exceptHttp

\* client.request: httpx resolves the hostname itself and connects to one of
\* the addresses it is given, or raises RequestError when there is none.
http_dispatch ==
    /\ http_pc = "validated"
    /\ IF url.host.kind = "ip"
          THEN /\ connected_to' = url.host.ip
               /\ http_pc' = "dispatched"
               /\ UNCHANGED http_error
       ELSE IF dns = {}
          THEN /\ http_pc' = "raised"
               /\ http_error' = "request"
               /\ UNCHANGED connected_to
       ELSE /\ \E ip \in dns : connected_to' = ip
            /\ http_pc' = "dispatched"
            /\ UNCHANGED http_error
    /\ UNCHANGED <<url, dns>>
    /\ UNCHANGED exceptHttp

\* The response arrives: it is returned, or refused for its content-length.
http_response ==
    /\ http_pc = "dispatched"
    /\ \/ http_pc' = "returned" /\ UNCHANGED http_error
       \/ http_pc' = "raised" /\ http_error' = "response_size"
    /\ UNCHANGED <<url, dns, connected_to>>
    /\ UNCHANGED exceptHttp

NextHttp ==
    \/ http_execute
    \/ dns_changes
    \/ http_dispatch
    \/ http_response

\* =========================================================================
\* Part VI: the definition registry
\* =========================================================================
\* A definition file is named after the definition it holds; its content is
\* a version of the definition, or "invalid" when loading it raises.

AgentNames == {"planner", "builder"}

ToolNames == {"lint"}

\* What one directory can hold.
Directories(names) == UNION {[fs -> {"v2", "invalid"}] : fs \in SUBSET names}

\* What the index of one kind can hold before the reload.
Indexes(names) == UNION {[ns -> {"v1"}] : ns \in SUBSET names}

\* What discovery loads from a directory: the files that validate.
Loadable(dir) == [f \in {g \in DOMAIN dir : dir[g] # "invalid"} |-> dir[f]]

\* sorted(index.values()), as the names and versions it lists.
Listing(index) == {<<n, index[n]>> : n \in DOMAIN index}

\* dict.get(name)
Get(index, name) == IF name \in DOMAIN index THEN index[name] ELSE None

InitRegistry ==
    /\ disk_agents \in Directories(AgentNames)
    /\ disk_tools \in Directories(ToolNames)
    /\ agents_index \in Indexes(AgentNames)
    /\ tools_index \in Indexes(ToolNames)
    /\ rl_pc = "idle"
    /\ rl_todo = {}
    /\ pre_agents = agents_index
    /\ pre_tools = tools_index
    /\ last_read = <<>>

\* reload(): self._agents.clear()
reload_clear_agents ==
    /\ rl_pc \in {"idle", "done"}
    /\ pre_agents' = agents_index
    /\ pre_tools' = tools_index
    /\ agents_index' = <<>>
    /\ rl_pc' = "clear_tools"
    /\ last_read' = <<>>
    /\ UNCHANGED <<disk_agents, disk_tools, tools_index, rl_todo>>
    /\ UNCHANGED exceptRegistry

\* reload(): self._tools.clear(), and discover() starts on the agents directory.
reload_clear_tools ==
    /\ rl_pc = "clear_tools"
    /\ tools_index' = <<>>
    /\ rl_pc' = "agents"
    /\ rl_todo' = DOMAIN disk_agents
    /\ UNCHANGED <<disk_agents, disk_tools, agents_index, pre_agents, pre_tools,
                   last_read>>
    /\ UNCHANGED exceptRegistry

\* _discover_agents: one turn of the loop over the directory, in glob's order.
discover_agent ==
    /\ rl_pc = "agents"
    /\ \E f \in rl_todo :
        /\ rl_todo' = rl_todo \ {f}
        /\ IF disk_agents[f] # "invalid"
              THEN agents_index' = With(agents_index, f, disk_agents[f])
              ELSE UNCHANGED agents_index
    /\ UNCHANGED <<disk_agents, disk_tools, tools_index, rl_pc, pre_agents,
                   pre_tools, last_read>>
    /\ UNCHANGED exceptRegistry

\* _discover_agents returns and _discover_tools starts.
agents_discovered ==
    /\ rl_pc = "agents"
    /\ rl_todo = {}
    /\ rl_pc' = "tools"
    /\ rl_todo' = DOMAIN disk_tools
    /\ UNCHANGED <<disk_agents, disk_tools, agents_index, tools_index, pre_agents,
                   pre_tools, last_read>>
    /\ UNCHANGED exceptRegistry

\* _discover_tools: one turn of the loop over the directory.
discover_tool ==
    /\ rl_pc = "tools"
    /\ \E f \in rl_todo :
        /\ rl_todo' = rl_todo \ {f}
        /\ IF disk_tools[f] # "invalid"
              THEN tools_index' = With(tools_index, f, disk_tools[f])
              ELSE UNCHANGED tools_index
    /\ UNCHANGED <<disk_agents, disk_tools, agents_index, rl_pc, pre_agents,
                   pre_tools, last_read>>
    /\ UNCHANGED exceptRegistry

\* _discover_tools, discover and reload return.
tools_discovered ==
    /\ rl_pc = "tools"
    /\ rl_todo = {}
    /\ rl_pc' = "done"
    /\ UNCHANGED <<disk_agents, disk_tools, agents_index, tools_index, rl_todo,
                   pre_agents, pre_tools, last_read>>
    /\ UNCHANGED exceptRegistry

\* What a reader's call leaves unchanged: everything but the record of it.
ReaderFrame ==
    /\ UNCHANGED <<disk_agents, disk_tools, agents_index, tools_index, rl_pc,
                   rl_todo, pre_agents, pre_tools>>
    /\ UNCHANGED exceptRegistry

\* The reader calls, made by another thread at any moment.
get_agent ==
    /\ \E name \in AgentNames :
          last_read' = [call |-> "get_agent", name |-> name,
                        got |-> Get(agents_index, name), listed |-> {}]
    /\ ReaderFrame

get_tool ==
    /\ \E name \in ToolNames :
          last_read' = [call |-> "get_tool", name |-> name,
                        got |-> Get(tools_index, name), listed |-> {}]
    /\ ReaderFrame

list_agents ==
    /\ last_read' = [call |-> "list_agents", name |-> "", got |-> None,
                     listed |-> Listing(agents_index)]
    /\ ReaderFrame

list_tools ==
    /\ last_read' = [call |-> "list_tools", name |-> "", got |-> None,
                     listed |-> Listing(tools_index)]
    /\ ReaderFrame

NextRegistry ==
    \/ reload_clear_agents
    \/ reload_clear_tools
    \/ discover_agent
    \/ agents_discovered
    \/ discover_tool
    \/ tools_discovered
    \/ get_agent
    \/ get_tool
    \/ list_agents
    \/ list_tools

\* =========================================================================
\* Part VII: the workflow compiler and the graph it compiles
\* =========================================================================
\* A $reference is the sequence of the keys of its dot path; a value that is
\* no reference is a literal.

Ref(path) == [is_ref |-> TRUE, path |-> path, lit |-> 0]

Lit(v) == [is_ref |-> FALSE, path |-> <<>>, lit |-> v]

\* _build_context: schema.models and schema.config, dumped.
Context ==
    [models |-> [default |-> "anthropic:claude-sonnet-4-20250514",
                 classification |-> None, reasoning |-> None, review |-> None],
     config |-> [work_platform |-> "github", repo_platform |-> "github",
                 autonomy |-> "assisted", max_retries |-> 1]]

\* resolve_references raises nothing for the path: each key is found, in a dict.
Resolves(path) ==
    /\ Len(path) \in 1..2
    /\ path[1] \in DOMAIN Context
    /\ Len(path) = 2 => path[2] \in DOMAIN Context[path[1]]

\* resolve_references, for a path that resolves to a value.
resolve_references(path) == Context[path[1]][path[2]]

\* The phases of the workflows explored: build, then test, which may send the
\* run back to build, then ship.
PhaseNames == <<"build", "test", "ship">>

ModelRefs == {Lit("openai:gpt-4o"), Ref(<<"models", "default">>), Ref(<<"models", "fast">>)}

InputLists ==
    { <<>>, << <<"build", "artifact">> >>, << <<"build", "report">> >>,
      << <<"lint", "report">> >>, << <<"config", "autonomy">> >>,
      << <<"config", "region">> >> }

OnFailures ==
    {[present |-> FALSE, retry_phase |-> "", max_retries |-> Lit(0)]}
    \cup [present : {TRUE}, retry_phase : {"build"},
          max_retries : {Lit(n) : n \in 0..MaxRetriesBound}
                        \cup {Ref(<<"config", "max_retries">>),
                              Ref(<<"config", "retries">>)}]

NoOnFailure == [present |-> FALSE, retry_phase |-> "", max_retries |-> Lit(0)]

Phase(name, model, inputs, outputs, on_failure) ==
    [name |-> name, model |-> model, inputs |-> inputs, outputs |-> outputs,
     on_failure |-> on_failure]

Schemas ==
    { << Phase("build", m, <<>>, {"artifact"}, NoOnFailure),
         Phase("test", Lit("openai:gpt-4o"), <<>>, {}, f),
         Phase("ship", Lit("openai:gpt-4o"), ins, {}, NoOnFailure) >> :
        m \in ModelRefs, f \in OnFailures, ins \in InputLists }

\* Index of the phase of that name.
PhaseIndex(phases, name) == CHOOSE i \in 1..Len(phases) : phases[i].name = name

\* _resolve_model raises nothing.
ModelResolves(phase) == phase.model.is_ref => Resolves(phase.model.path)

\* The edge loop of compile raises nothing for phase i: the last phase's
\* on_failure is not looked at.
EdgeResolves(phases, i) ==
    (i < Len(phases) /\ phases[i].on_failure.present
       /\ phases[i].on_failure.max_retries.is_ref)
        => Resolves(phases[i].on_failure.max_retries.path)

\* The edge compile adds after phase i.
EdgeOf(phases, i) ==
    LET f == phases[i].on_failure
        nxt == IF i < Len(phases) THEN i + 1 ELSE 0
    IN IF i < Len(phases) /\ f.present
       THEN [conditional |-> TRUE,
             retry |-> PhaseIndex(phases, f.retry_phase),
             max_retries |-> IF f.max_retries.is_ref
                                THEN resolve_references(f.max_retries.path)
                                ELSE f.max_retries.lit,
             continue |-> nxt]
       ELSE [conditional |-> FALSE, retry |-> 0, max_retries |-> 0, continue |-> nxt]

\* should_retry of _create_retry_condition.
should_retry(state, allowed) ==
    IF state.evaluation_result = "GO" THEN "continue"
    ELSE IF state.retry_count < allowed THEN "retry"
    ELSE "continue"

\* _build_input_context raises: an input names a $config key that is not there.
InputContextRaises(phase) ==
    \E k \in 1..Len(phase.inputs) :
        phase.inputs[k][1] = "config" /\ ~Resolves(phase.inputs[k])

InitCompiler ==
    /\ cw_schema \in Schemas
    /\ cw_graph = <<>>
    /\ cw_pc = "loaded"
    /\ cw_at = 0
    /\ cw_state = <<>>
    /\ cw_retries = <<>>
    /\ cw_steps = 0

\* compile(): agents and nodes are made for every phase, then the edges; the
\* run that follows starts from create_initial_state.
compile ==
    /\ cw_pc = "loaded"
    /\ IF /\ \A i \in 1..Len(cw_schema) : ModelResolves(cw_schema[i])
          /\ \A i \in 1..Len(cw_schema) : EdgeResolves(cw_schema, i)
       THEN /\ cw_graph' = [i \in 1..Len(cw_schema) |-> EdgeOf(cw_schema, i)]
            /\ cw_pc' = "running"
            /\ cw_at' = 1
            /\ cw_state' = [completed_phases |-> <<>>, failed_phases |-> {},
                            error |-> None, error_phase |-> None,
                            retry_count |-> 0, evaluation_result |-> None]
            /\ cw_retries' = [i \in 1..Len(cw_schema) |-> 0]
       ELSE /\ cw_pc' = "compile_error"
            /\ UNCHANGED <<cw_graph, cw_at, cw_state, cw_retries>>
    /\ UNCHANGED <<cw_schema, cw_steps>>
    /\ UNCHANGED exceptCompiler

\* Where the graph goes after node i, given the state the node left.
Route(i, state) ==
    IF cw_graph[i].conditional
       /\ should_retry(state, cw_graph[i].max_retries) = "retry"
    THEN cw_graph[i].retry
    ELSE cw_graph[i].continue

\* One superstep: node_fn of the phase runs and the edge after it is followed.
cw_node ==
    /\ cw_pc = "running"
    /\ cw_steps < RecursionLimit
    /\ \E outcome \in {"ok", "raise"} :
        LET i == cw_at
            name == cw_schema[i].name
            failed == outcome = "raise" \/ InputContextRaises(cw_schema[i])
            state == IF failed
                     THEN [cw_state EXCEPT !.error = "raised", !.error_phase = name,
                                           !.failed_phases = @ \cup {name}]
                     ELSE [cw_state EXCEPT
                              !.completed_phases = Append(@, name),
                              !.failed_phases = @ \ {name}]
            target == Route(i, state)
        IN /\ cw_state' = state
           /\ cw_retries' = [cw_retries EXCEPT ![i] =
                                IF cw_graph[i].conditional
                                   /\ should_retry(state, cw_graph[i].max_retries)
                                          = "retry"
                                THEN @ + 1 ELSE @]
           /\ cw_pc' = IF target = 0 THEN "END" ELSE "running"
           /\ cw_at' = target
    /\ cw_steps' = cw_steps + 1
    /\ UNCHANGED <<cw_schema, cw_graph>>
    /\ UNCHANGED exceptCompiler

\* LangGraph stops an invocation that has not reached END within its
\* recursion limit and raises GraphRecursionError.
recursion_error ==
    /\ cw_pc = "running"
    /\ cw_steps >= RecursionLimit
    /\ cw_pc' = "recursion_error"
    /\ UNCHANGED <<cw_schema, cw_graph, cw_at, cw_state, cw_retries, cw_steps>>
    /\ UNCHANGED exceptCompiler

NextCompiler ==
    \/ compile
    \/ cw_node
    \/ recursion_error

\* =========================================================================
\* Part VIII: the tool-use loop of a phase agent
\* =========================================================================

ToolSets == { {}, {"read_file"} }

\* What the API may answer: it asks for a tool only when tools were offered.
StopReasons(tools) ==
    IF tools = {} THEN {"end_turn", "max_tokens"}
    ELSE {"tool_use", "end_turn", "max_tokens"}

\* A message of the conversation: who speaks and what it carries.
Message(role, content) == [role |-> role, content |-> content]

InitAgent ==
    /\ max_iterations \in 1..MaxIterationsBound
    /\ anthropic_tools \in ToolSets
    /\ anthropic_messages = <<>>
    /\ llm_response = <<>>
    /\ tool_results = <<>>
    /\ agent_pc = "idle"
    /\ llm_calls = 0

\* client.messages.create: one LLM call and its answer.
messages_create ==
    /\ llm_calls < MaxLlmCalls
    /\ llm_calls' = llm_calls + 1
    /\ \E stop_reason \in StopReasons(anthropic_tools) :
          llm_response' = << [stop_reason |-> stop_reason] >>

\* invoke, up to the first answer: the task becomes the first user message.
invoke ==
    /\ agent_pc = "idle"
    /\ anthropic_messages' = << Message("user", "task") >>
    /\ messages_create
    /\ agent_pc' = "responded"
    /\ UNCHANGED <<max_iterations, anthropic_tools, tool_results>>
    /\ UNCHANGED exceptAgent

\* The loop test holds: the tools asked for are run.
execute_tools ==
    /\ agent_pc = "responded"
    /\ llm_response[1].stop_reason = "tool_use"
    /\ \E r \in {"result", "error"} : tool_results' = <<r>>
    /\ agent_pc' = "tools_run"
    /\ UNCHANGED <<max_iterations, anthropic_tools, anthropic_messages, llm_response,
                   llm_calls>>
    /\ UNCHANGED exceptAgent

\* The rest of the loop body: the answer and the tool results join the
\* conversation and the LLM is called again.
continue_conversation ==
    /\ agent_pc = "tools_run"
    /\ anthropic_messages' =
          anthropic_messages \o << Message("assistant", "tool_use"),
                                   Message("user", tool_results[1]) >>
    /\ messages_create
    /\ tool_results' = <<>>
    /\ agent_pc' = "responded"
    /\ UNCHANGED <<max_iterations, anthropic_tools>>
    /\ UNCHANGED exceptAgent

\* The loop test fails: invoke returns the reply.
invoke_return ==
    /\ agent_pc = "responded"
    /\ llm_response[1].stop_reason # "tool_use"
    /\ agent_pc' = "returned"
    /\ UNCHANGED <<max_iterations, anthropic_tools, anthropic_messages, llm_response,
                   tool_results, llm_calls>>
    /\ UNCHANGED exceptAgent

NextAgent ==
    \/ invoke
    \/ execute_tools
    \/ continue_conversation
    \/ invoke_return

\* =========================================================================
\* Part IX: saving and deleting definitions
\* =========================================================================
\* A definition is its name and a version of its content.  A file is known by
\* its stem; a file written by hand may hold a definition of another name.

Definitions(names) == [name : names, version : {"v1", "v2"}]

AgentStems == {"planner", "builder", "agent-1"}

ToolStems == {"lint", "tool-1"}

\* What a directory can hold when the registry is constructed: first
\* versions only.
FileSets(stems, names) ==
    UNION {[fs -> [name : names, version : {"v1"}]] : fs \in SUBSET stems}

\* The indexes discovery can build from a directory: every name defined in
\* it, mapped to the definition of the file of that name glob yields last.
Discoverable(files) ==
    LET names == {files[f].name : f \in DOMAIN files}
    IN {index \in [names -> {files[f] : f \in DOMAIN files}] :
           \A n \in names : index[n] \in {files[f] : f \in {g \in DOMAIN files :
                                                            files[g].name = n}}}

InitPersistence ==
    /\ agent_files \in FileSets(AgentStems, AgentNames)
    /\ tool_files \in FileSets(ToolStems, ToolNames)
    /\ saved_agents \in Discoverable(agent_files)
    /\ saved_tools \in Discoverable(tool_files)

\* save_agent: the file <name>.yaml is written and the index entry is set.
save_agent ==
    /\ \E agent \in Definitions(AgentNames) :
        /\ agent_files' = With(agent_files, agent.name, agent)
        /\ saved_agents' = With(saved_agents, agent.name, agent)
    /\ UNCHANGED <<tool_files, saved_tools>>
    /\ UNCHANGED exceptPersistence

\* save_tool
save_tool ==
    /\ \E tool \in Definitions(ToolNames) :
        /\ tool_files' = With(tool_files, tool.name, tool)
        /\ saved_tools' = With(saved_tools, tool.name, tool)
    /\ UNCHANGED <<agent_files, saved_agents>>
    /\ UNCHANGED exceptPersistence

\* delete_agent: for an indexed name, <name>.yaml is unlinked if it exists
\* and the index entry is removed.
delete_agent ==
    /\ \E name \in AgentNames :
        IF name \notin DOMAIN saved_agents
        THEN UNCHANGED <<agent_files, saved_agents>>
        ELSE /\ agent_files' = Without(agent_files, name)
             /\ saved_agents' = Without(saved_agents, name)
    /\ UNCHANGED <<tool_files, saved_tools>>
    /\ UNCHANGED exceptPersistence

\* delete_tool
delete_tool ==
    /\ \E name \in ToolNames :
        IF name \notin DOMAIN saved_tools
        THEN UNCHANGED <<tool_files, saved_tools>>
        ELSE /\ tool_files' = Without(tool_files, name)
             /\ saved_tools' = Without(saved_tools, name)
    /\ UNCHANGED <<agent_files, saved_agents>>
    /\ UNCHANGED exceptPersistence

NextPersistence ==
    \/ save_agent
    \/ save_tool
    \/ delete_agent
    \/ delete_tool

\* =========================================================================
\* Part X: the log manager
\* =========================================================================
\* An optional value is <<>> for None and <<v>> for v.

\* levels.index(level)
LevelIndex == [debug |-> 0, info |-> 1, warning |-> 2, error |-> 3, critical |-> 4]

\* _should_log
should_log(level) == LevelIndex[level] >= LevelIndex[log_level]

\* The workflow ids explored, in the ascending order of their file names.
StemOrder == <<"WF-7-a", "WF-8-b">>

WorkflowIds == Range(StemOrder)

\* The work item of a workflow: the engine puts it into the workflow id.
WorkIdOf == [x \in WorkflowIds |-> IF x = "WF-7-a" THEN "7" ELSE "8"]

\* The log calls explored: a level and a duration.
LogCalls == {[level |-> "debug", duration_ms |-> <<>>],
             [level |-> "error", duration_ms |-> <<0>>]}

LogEntry(level, message, duration_ms) ==
    [level |-> level, message |-> message, duration_ms |-> duration_ms]

\* A to_dict that leaves out every falsy value.
to_dict_drops_falsy(entry) ==
    [k \in {"level", "message"}
           \cup (IF entry.duration_ms \notin {<<>>, <<0>>} THEN {"duration_ms"} ELSE {})
       |-> entry[k]]

\* LogEntry.to_dict: the fields that are not None.
to_dict(entry) ==
    [k \in {"level", "message"}
           \cup (IF entry.duration_ms # <<>> THEN {"duration_ms"} ELSE {})
       |-> entry[k]]

\* LogEntry(**e): fields that are missing take their default, None.
FromDict(e) ==
    LogEntry(e.level, e.message,
             IF "duration_ms" \in DOMAIN e THEN e.duration_ms ELSE <<>>)

\* WorkflowLog.to_dict, as json.dump writes it.
WorkflowToDict(workflow) ==
    [workflow_id |-> workflow.workflow_id, work_id |-> workflow.work_id,
     status |-> workflow.status,
     entries |-> [i \in 1..Len(workflow.entries) |-> to_dict(workflow.entries[i])]]

\* get_workflow_log: <<>> when there is no file, else the WorkflowLog read back.
get_workflow_log(workflow_id) ==
    IF workflow_id \notin DOMAIN log_files THEN <<>>
    ELSE LET data == log_files[workflow_id]
         IN << [workflow_id |-> data.workflow_id, work_id |-> data.work_id,
                status |-> data.status,
                entries |-> [i \in 1..Len(data.entries) |-> FromDict(data.entries[i])]] >>

\* The entry log() makes, appended to the workflow's entries: the entries
\* after log(level, message, duration_ms) on a workflow holding `entries`.
Logged(entries, level, message, duration_ms) ==
    IF should_log(level) THEN Append(entries, LogEntry(level, message, duration_ms))
    ELSE entries

\* sorted(glob("*.json"), reverse=True): the stems, greatest first.
SortedReverse(ids) ==
    LET Kept(x) == x \in ids
        descending == [i \in 1..Len(StemOrder) |-> StemOrder[Len(StemOrder) + 1 - i]]
    IN SelectSeq(descending, Kept)

\* The loop of list_workflow_logs over the files it kept.
RECURSIVE FilterLogs(_, _, _)
FilterLogs(stems, status, work_id) ==
    IF stems = <<>> THEN <<>>
    ELSE LET workflow == get_workflow_log(Head(stems))[1]
             rest == FilterLogs(Tail(stems), status, work_id)
         IN IF status # <<>> /\ workflow.status # status[1] THEN rest
            ELSE IF work_id # <<>> /\ workflow.work_id # work_id[1] THEN rest
            ELSE <<workflow.workflow_id>> \o rest

\* list_workflow_logs: the ids of the logs it returns, in order.
list_logs(status, work_id, limit) ==
    LET files == SortedReverse(DOMAIN log_files)
    IN FilterLogs(SubSeq(files, 1, Min(limit, Len(files))), status, work_id)

InitLogs ==
    /\ log_level \in {"info", "error"}
    /\ current_workflow = <<>>
    /\ log_files = <<>>
    /\ recorded = <<>>
    /\ ended = <<>>
    /\ listed = <<>>

\* start_workflow: a new WorkflowLog becomes current and its start is logged.
start_workflow ==
    /\ \E workflow_id \in WorkflowIds :
        LET entries == Logged(<<>>, "info", "Workflow started", <<>>)
        IN /\ current_workflow' = << [workflow_id |-> workflow_id,
                                      work_id |-> WorkIdOf[workflow_id],
                                      status |-> "running",
                                      entries |-> entries] >>
           /\ recorded' = entries
    /\ ended' = <<>>
    /\ listed' = <<>>
    /\ UNCHANGED <<log_level, log_files>>
    /\ UNCHANGED exceptLogs

\* log (and debug, info, warning, error, critical, which call it).
log ==
    /\ current_workflow # <<>>
    /\ Len(current_workflow[1].entries) < MaxLogEntries
    /\ \E call \in LogCalls :
        LET entries == Logged(current_workflow[1].entries, call.level, "message",
                              call.duration_ms)
        IN /\ current_workflow' = << [current_workflow[1] EXCEPT !.entries = entries] >>
           /\ recorded' = IF should_log(call.level)
                          THEN Append(recorded,
                                      LogEntry(call.level, "message", call.duration_ms))
                          ELSE recorded
    /\ listed' = <<>>
    /\ UNCHANGED <<log_level, log_files, ended>>
    /\ UNCHANGED exceptLogs

\* end_workflow: the status is set, the end is logged, the document is
\* written and there is no current workflow any more.
end_workflow ==
    /\ \E status \in {"completed", "failed"} :
        IF current_workflow = <<>>
        THEN UNCHANGED <<current_workflow, log_files, recorded, ended>>
        ELSE LET entries == Logged(current_workflow[1].entries, "info",
                                   "Workflow ended", <<>>)
                 workflow == [current_workflow[1] EXCEPT !.status = status,
                                                         !.entries = entries]
             IN /\ log_files' = With(log_files, workflow.workflow_id,
                                     WorkflowToDict(workflow))
                /\ current_workflow' = <<>>
                /\ recorded' = IF should_log("info")
                               THEN Append(recorded,
                                           LogEntry("info", "Workflow ended", <<>>))
                               ELSE recorded
                /\ ended' = << [workflow_id |-> workflow.workflow_id,
                                status |-> status] >>
    /\ listed' = <<>>
    /\ UNCHANGED log_level
    /\ UNCHANGED exceptLogs

\* list_workflow_logs
list_workflow_logs ==
    /\ \E status \in {<<>>, <<"completed">>}, work_id \in {<<>>, <<"7">>},
          limit \in 1..MaxLimit :
        listed' = << [status |-> status, work_id |-> work_id, limit |-> limit,
                      logs |-> list_logs(status, work_id, limit)] >>
    /\ UNCHANGED <<log_level, current_workflow, log_files, recorded, ended>>
    /\ UNCHANGED exceptLogs

NextLogs ==
    \/ start_workflow
    \/ log
    \/ end_workflow
    \/ list_workflow_logs

\* =========================================================================
\* Part XI: the checkpointer
\* =========================================================================

\* The values of config.checkpoint.backend explored; "memory" stands for any
\* other string.
Backends == {"sqlite", "postgres", "redis", "memory"}

\* The backends that keep checkpoints in a file or behind the network.
DurableBackends == {"sqlite", "postgres", "redis"}

ThreadIds == {"WF-1", "WF-2"}

CheckpointStates == {"after frame", "after build"}

\* _get_checkpointer of graph.py: the saver it returns.
get_checkpointer(config, packages) ==
    IF config.backend = "sqlite" /\ "sqlite" \in packages THEN "sqlite"
    ELSE IF config.backend = "postgres" /\ "postgres" \in packages
            /\ config.postgres_url_set THEN "postgres"
    ELSE "memory"

\* WorkflowCompiler._get_checkpointer
compiler_get_checkpointer == "memory"

\* The store a saver reads and writes.
StoreOf(saver) == IF saver = "memory" THEN memory_store ELSE durable_store

\* get(t) through the checkpointer in use: <<>> when nothing is stored.
checkpoint_get(thread_id) ==
    IF thread_id \in DOMAIN StoreOf(checkpointer)
    THEN <<StoreOf(checkpointer)[thread_id]>> ELSE <<>>

InitCheckpoint ==
    /\ checkpoint_config \in [backend : Backends, postgres_url_set : BOOLEAN]
    /\ custom_workflow \in BOOLEAN
    /\ importable \in {{}, {"sqlite", "postgres"}}
    /\ checkpointer = "none"
    /\ durable_store = <<>>
    /\ memory_store = <<>>
    /\ last_put = <<>>
    /\ processes = 1

\* create_faber_workflow or WorkflowCompiler.compile: the graph is compiled
\* with the checkpointer chosen for it.
create_workflow ==
    /\ checkpointer = "none"
    /\ checkpointer' = IF custom_workflow THEN compiler_get_checkpointer
                       ELSE get_checkpointer(checkpoint_config, importable)
    /\ UNCHANGED <<checkpoint_config, custom_workflow, importable, durable_store,
                   memory_store, last_put, processes>>
    /\ UNCHANGED exceptCheckpoint

\* The graph checkpoints the state of a thread after a node.
checkpoint_put ==
    /\ checkpointer # "none"
    /\ \E thread_id \in ThreadIds, state \in CheckpointStates :
        /\ IF checkpointer = "memory"
              THEN /\ memory_store' = With(memory_store, thread_id, state)
                   /\ UNCHANGED durable_store
              ELSE /\ durable_store' = With(durable_store, thread_id, state)
                   /\ UNCHANGED memory_store
        /\ last_put' = With(last_put, thread_id, state)
    /\ UNCHANGED <<checkpoint_config, custom_workflow, importable, checkpointer,
                   processes>>
    /\ UNCHANGED exceptCheckpoint

\* The process ends and a fresh one is started with the same configuration:
\* what was held in memory is gone.
process_restart ==
    /\ processes < MaxProcesses
    /\ processes' = processes + 1
    /\ checkpointer' = "none"
    /\ memory_store' = <<>>
    /\ UNCHANGED <<checkpoint_config, custom_workflow, importable, durable_store,
                   last_put>>
    /\ UNCHANGED exceptCheckpoint

NextCheckpoint ==
    \/ create_workflow
    \/ checkpoint_put
    \/ process_restart

\* =========================================================================
\* Specifications
\* =========================================================================

\* No approval queue is in use.
IdleQueue ==
    /\ adapters = {}
    /\ notify_channels = <<>>
    /\ response_channels = <<>>
    /\ default_timeout_minutes = 0
    /\ requests = <<>>
    /\ pending_requests = {}
    /\ responses = <<>>
    /\ rq_pc = "idle"
    /\ rq_id = 0
    /\ rq_chan = 0
    /\ elapsed = 0
    /\ returned = <<>>
    /\ first_reported = <<>>
    /\ cancel_accepted = FALSE
    /\ polled = FALSE
    /\ timeout_arg = 0

\* No pipeline runs.
IdleWorkflow ==
    /\ max_retries = 0
    /\ skip_phases = {}
    /\ evalScript = <<>>
    /\ current_phase = ""
    /\ completed_phases = <<>>
    /\ phase_results = <<>>
    /\ evaluation_result = None
    /\ retry_count = 0
    /\ error = None
    /\ error_phase = None
    /\ pc = "idle"
    /\ result = <<>>
    /\ executed = <<>>
    /\ spent = 0

\* No cost tracker is in use.
IdleCost ==
    /\ budget_limit_usd = 0
    /\ require_approval_at = 0
    /\ events = <<>>
    /\ total_cost_usd = 0
    /\ total_tokens = 0
    /\ budget_approved = FALSE
    /\ last_call = ""
    /\ usage_calls = 0
    /\ ct_raised = None
    /\ approve_called = FALSE

\* No tool is executed.
IdleTools ==
    /\ command_template = <<>>
    /\ parameters = <<>>
    /\ sandbox = <<>>
    /\ te_pc = "idle"
    /\ argv = <<>>
    /\ child_env = <<>>
    /\ child_alive = FALSE
    /\ stdout_open = FALSE
    /\ stderr_open = FALSE
    /\ reaped = FALSE
    /\ te_elapsed = 0
    /\ te_error = None
    /\ te_result = <<>>

\* No HTTP tool is executed.
IdleHttp ==
    /\ url = <<>>
    /\ dns = {}
    /\ http_pc = "idle"
    /\ http_error = None
    /\ connected_to = None

\* No definition registry is in use.
IdleRegistry ==
    /\ disk_agents = <<>>
    /\ disk_tools = <<>>
    /\ agents_index = <<>>
    /\ tools_index = <<>>
    /\ rl_pc = "idle"
    /\ rl_todo = {}
    /\ pre_agents = <<>>
    /\ pre_tools = <<>>
    /\ last_read = <<>>

\* No custom workflow is compiled.
IdleCompiler ==
    /\ cw_schema = <<>>
    /\ cw_graph = <<>>
    /\ cw_pc = "loaded"
    /\ cw_at = 0
    /\ cw_state = <<>>
    /\ cw_retries = <<>>
    /\ cw_steps = 0

\* No phase agent is invoked.
IdleAgent ==
    /\ max_iterations = 1
    /\ anthropic_tools = {}
    /\ anthropic_messages = <<>>
    /\ llm_response = <<>>
    /\ tool_results = <<>>
    /\ agent_pc = "idle"
    /\ llm_calls = 0

\* No definition is saved or deleted.
IdlePersistence ==
    /\ agent_files = <<>>
    /\ tool_files = <<>>
    /\ saved_agents = <<>>
    /\ saved_tools = <<>>

\* No LogManager is in use.
IdleLogs ==
    /\ log_level = "info"
    /\ current_workflow = <<>>
    /\ log_files = <<>>
    /\ recorded = <<>>
    /\ ended = <<>>
    /\ listed = <<>>

\* No checkpointer is in use.
IdleCheckpoint ==
    /\ checkpoint_config = <<>>
    /\ custom_workflow = FALSE
    /\ importable = {}
    /\ checkpointer = "none"
    /\ durable_store = <<>>
    /\ memory_store = <<>>
    /\ last_put = <<>>
    /\ processes = 0

\* The pipeline runs alone.
InitW ==
    InitWorkflow /\ IdleQueue /\ IdleCost /\ IdleTools /\ IdleHttp /\ IdleRegistry /\
      IdleCompiler /\ IdleAgent /\ IdlePersistence /\ IdleLogs /\ IdleCheckpoint

NextWorkflow ==
    \/ frame_node
    \/ architect_node
    \/ build_node
    \/ evaluate_node
    \/ release_node
    \/ run_workflow_return

SpecWorkflow == InitW /\ [][NextWorkflow]_vars

\* LangGraph runs the next node of a started invocation until END, and
\* run_workflow then returns.
FairSpecWorkflow == SpecWorkflow /\ WF_vars(NextWorkflow)

\* The queue is used alone.
InitQ ==
    InitQueue /\ IdleWorkflow /\ IdleCost /\ IdleTools /\ IdleHttp /\ IdleRegistry /\
      IdleCompiler /\ IdleAgent /\ IdlePersistence /\ IdleLogs /\ IdleCheckpoint

SpecQueue == InitQ /\ [][NextQueue]_vars

\* The event loop resumes the awaiting request_approval coroutine: adapter
\* calls and the sleep all end.
FairSpecQueue == SpecQueue /\ WF_vars(RequesterStep)

\* A cost tracker is used alone.
InitC ==
    InitCost /\ IdleWorkflow /\ IdleQueue /\ IdleTools /\ IdleHttp /\ IdleRegistry /\
      IdleCompiler /\ IdleAgent /\ IdlePersistence /\ IdleLogs /\ IdleCheckpoint

SpecCost == InitC /\ [][NextCost]_vars

\* One tool execution is made alone.
InitT ==
    InitTools /\ IdleWorkflow /\ IdleQueue /\ IdleCost /\ IdleHttp /\ IdleRegistry /\
      IdleCompiler /\ IdleAgent /\ IdlePersistence /\ IdleLogs /\ IdleCheckpoint

SpecTools == InitT /\ [][NextTools]_vars

\* One HTTP tool request is made alone.
InitH ==
    InitHttp /\ IdleWorkflow /\ IdleQueue /\ IdleCost /\ IdleTools /\ IdleRegistry /\
      IdleCompiler /\ IdleAgent /\ IdlePersistence /\ IdleLogs /\ IdleCheckpoint

SpecHttp == InitH /\ [][NextHttp]_vars

\* A definition registry is reloaded and read alone.
InitR ==
    InitRegistry /\ IdleWorkflow /\ IdleQueue /\ IdleCost /\ IdleTools /\ IdleHttp /\
      IdleCompiler /\ IdleAgent /\ IdlePersistence /\ IdleLogs /\ IdleCheckpoint

SpecRegistry == InitR /\ [][NextRegistry]_vars

\* One custom workflow is compiled and run alone.
InitK ==
    InitCompiler /\ IdleWorkflow /\ IdleQueue /\ IdleCost /\ IdleTools /\ IdleHttp /\
      IdleRegistry /\ IdleAgent /\ IdlePersistence /\ IdleLogs /\ IdleCheckpoint

SpecCompiler == InitK /\ [][NextCompiler]_vars

\* One phase agent is invoked alone.
InitA ==
    InitAgent /\ IdleWorkflow /\ IdleQueue /\ IdleCost /\ IdleTools /\ IdleHttp /\
      IdleRegistry /\ IdleCompiler /\ IdlePersistence /\ IdleLogs /\ IdleCheckpoint

SpecAgent == InitA /\ [][NextAgent]_vars

\* Definitions are saved into and deleted from one registry.
InitP ==
    InitPersistence /\ IdleWorkflow /\ IdleQueue /\ IdleCost /\ IdleTools /\
      IdleHttp /\ IdleRegistry /\ IdleCompiler /\ IdleAgent /\ IdleLogs /\
      IdleCheckpoint

SpecPersistence == InitP /\ [][NextPersistence]_vars

\* One LogManager is used alone.
InitL ==
    InitLogs /\ IdleWorkflow /\ IdleQueue /\ IdleCost /\ IdleTools /\ IdleHttp /\
      IdleRegistry /\ IdleCompiler /\ IdleAgent /\ IdlePersistence /\ IdleCheckpoint

SpecLogs == InitL /\ [][NextLogs]_vars

\* One configuration is run, checkpointed and resumed in fresh processes.
InitCk ==
    InitCheckpoint /\ IdleWorkflow /\ IdleQueue /\ IdleCost /\ IdleTools /\
      IdleHttp /\ IdleRegistry /\ IdleCompiler /\ IdleAgent /\ IdlePersistence /\
      IdleLogs

SpecCheckpoint == InitCk /\ [][NextCheckpoint]_vars

\* =========================================================================
\* Properties of the default pipeline
\* =========================================================================

Returned == pc = "returned"

EvaluateCount == Cardinality(Executions("evaluate"))

BuildCount == Cardinality(Executions("build"))

NoPhaseRaised == \A i \in 1..Len(executed) : ~executed[i].raised

\* s is an initial segment of t.
IsPrefix(s, t) == Len(s) <= Len(t) /\ \A i \in 1..Len(s) : s[i] = t[i]

\* C1: a run that ends with status completed has completed_phases equal to
\* the whole pipeline, in order, and every recorded phase result is completed.
C1_CompletedRunHasFullPipeline ==
    (Returned /\ result.status = "completed") =>
        /\ result.completed_phases = Pipeline
        /\ \A p \in DOMAIN phase_results : phase_results[p].status = "completed"

\* C2: retry_count never exceeds max_retries, in any state of a run.
C2_RetryCountWithinBound == retry_count <= max_retries

\* C3: when frame or architect raises, no later phase runs, and the run ends
\* failed with error_phase naming that phase.
C3_FatalPhaseErrorStops ==
    \A i \in 1..Len(executed) :
        (executed[i].phase \in {"frame", "architect"} /\ executed[i].raised) =>
            /\ i = Len(executed)
            /\ Returned => /\ result.status = "failed"
                           /\ result.error_phase = executed[i].phase

\* C4: every evaluate step goes to release on GO; otherwise, while the
\* retry_count it started with is below max_retries, to build with
\* retry_count one higher; otherwise to release.
C4_EvaluateTransition ==
    [][pc = "evaluate" =>
          IF evaluation_result' = "GO" THEN pc' = "release"
          ELSE IF retry_count < max_retries
                  THEN pc' = "build" /\ retry_count' = retry_count + 1
                  ELSE pc' = "release"]_vars

\* C5: when every evaluate call yields NO_GO (and no phase raises), the run
\* reaches release and ends completed with retry_count = max_retries and
\* evaluation_result = NO_GO.
C5_AllNoGoExhaustsRetries ==
    (/\ Returned
     /\ NoPhaseRaised
     /\ \A i \in 1..EvaluateCount : OutcomeKind(EvalOutcomeAt(i)) = "NO_GO") =>
        /\ Executions("release") # {}
        /\ result.retry_count = max_retries
        /\ result.evaluation_result = "NO_GO"
        /\ result.status = "completed"

\* C6: with max_retries >= 1, a first evaluate of NO_GO and a second of GO (and
\* no phase raising), build runs exactly twice and the run ends completed with
\* retry_count = 1.
C6_RetryThenSucceed ==
    (/\ Returned
     /\ max_retries >= 1
     /\ NoPhaseRaised
     /\ OutcomeKind(EvalOutcomeAt(1)) = "NO_GO"
     /\ OutcomeKind(EvalOutcomeAt(2)) = "GO") =>
        /\ BuildCount = 2
        /\ result.retry_count = 1
        /\ result.status = "completed"

C8_CompletedPhasesPrefix ==
    /\ IsPrefix(completed_phases, Pipeline)
    /\ \A p \in Range(completed_phases) :
          p \in DOMAIN phase_results /\ phase_results[p].status = "completed"

\* C9: a run in which build or evaluate raised (frame and architect did not)
\* and release then completed ends with status completed.
C9_RetriedErrorsDoNotFail ==
    (/\ Returned
     /\ Raised("build") \/ Raised("evaluate")
     /\ ~Raised("frame") /\ ~Raised("architect")
     /\ phase_results["release"].status = "completed") =>
        result.status = "completed"

\* =========================================================================
\* Properties of the approval queue
\* =========================================================================

InCall == rq_pc \in {"notify", "poll", "sleep"}

\* The responses returned so far for request id.
ReturnedFor(id) == {i \in 1..Len(returned) : returned[i].request_id = id}

HasResponseAdapter == NextRegistered(response_channels, 1) # 0

\* C11: the response a call returns is the one that was reported first for
\* its request; a response reported later (submitted, or polled from another
\* adapter) is never the one returned.
C11_FirstReportedWins ==
    (rq_pc = "done" /\ first_reported # <<>>) => returned = first_reported

\* C12: once a submitted response is the first report for a pending request,
\* a further submit_response leaves the stored responses unchanged, and a
\* requester that receives a submitted response receives that first one.
C12_SecondSubmitHasNoEffect ==
    /\ [][(/\ submit_response
           /\ first_reported # <<>>
           /\ first_reported[1] \in SubmittedResponses(rq_id))
          => UNCHANGED responses]_vars
    /\ []((/\ rq_pc = "done"
           /\ first_reported # <<>>
           /\ first_reported[1] \in SubmittedResponses(rq_id)
           /\ returned[1] \in SubmittedResponses(rq_id))
          => returned = first_reported)

\* C13: after cancel_request has returned True for the request of a waiting
\* call, the next pass of the polling loop returns the synthesized cancelled
\* response, and the call returns no other response.
C13_CancelWins ==
    /\ [][(cancel_accepted /\ rq_pc = "sleep") =>
             \/ rq_pc' = "sleep"
             \/ rq_pc' = "done" /\ returned' = <<CancelledResponse(rq_id)>>]_vars
    /\ []((rq_pc = "done" /\ cancel_accepted) =>
             returned = <<CancelledResponse(rq_id)>>)

\* C14: a call made with timeout_minutes = 0 while a response adapter is
\* registered returns the response of the adapter's first poll when that poll
\* yields one, and returns timeout only after a poll has been made.
C14_ZeroTimeoutPollsFirst ==
    (/\ rq_pc = "done"
     /\ timeout_arg = 0
     /\ HasResponseAdapter
     /\ returned = <<TimeoutResponse(rq_id)>>) => polled

\* =========================================================================
\* Properties of the cost tracker
\* =========================================================================

RECURSIVE SumCost(_)
\* The sum of cost_usd over a sequence of events.
SumCost(evs) ==
    IF evs = <<>> THEN 0 ELSE SumCost(SubSeq(evs, 1, Len(evs) - 1)) + evs[Len(evs)].cost_usd

AfterAddUsage == last_call = "add_usage"

\* The ratio total / limit lies in [require_approval_at, 1.0).
InApprovalBand ==
    /\ RatioAtLeast(total_cost_usd, budget_limit_usd, require_approval_at)
    /\ total_cost_usd < budget_limit_usd

\* C15: no add_usage call lowers total_cost_usd, whether it returns or raises,
\* and total_cost_usd is always the sum of cost_usd over the recorded events.
C15_TotalIsSumOfEvents ==
    /\ [][Len(events') = Len(events) + 1 => total_cost_usd' >= total_cost_usd]_vars
    /\ [](total_cost_usd = SumCost(events))

\* Events were recorded and counted by calls that raised a budget error.
C15_Witness ==
    /\ AfterAddUsage
    /\ ct_raised = "BudgetExceeded"
    /\ Len(events) >= 2
    /\ total_cost_usd > budget_limit_usd
    /\ \E i \in 1..Len(events) : events[i].cost_usd % 100 # 0

Spawned == te_pc \in {"reading", "wait", "killed", "returned"} \/ te_error = "timeout"

\* The value the parameter map gives to the placeholder atom, as a string;
\* an atom that is no placeholder of the map stands for itself.
LiteralValue(atom, params) ==
    IF \E i \in 1..Len(params) : Placeholder[params[i].key] = atom
    THEN params[CHOOSE i \in 1..Len(params) : Placeholder[params[i].key] = atom].value
    ELSE <<atom>>

\* The token with each placeholder replaced, once, by its parameter's value.
LiteralSubstitution(token, params) ==
    Concat([i \in 1..Len(token) |-> LiteralValue(token[i], params)])

\* C18: the argv the child is started with has one element per token of the
\* template, and each element is its token with every placeholder replaced by
\* the literal value of its parameter: values are neither split into further
\* arguments nor searched for placeholders.
C18_ArgvIsLiteralSubstitution ==
    Spawned =>
        LET tokens == shlex_split(command_template)
        IN /\ Len(argv) = Len(tokens)
           /\ \A i \in 1..Len(tokens) :
                 argv[i] = LiteralSubstitution(tokens[i], parameters)

\* C19: the environment the child is started with holds only variables named
\* in the sandbox's env_vars, whatever that list is.
C19_ChildEnvironmentOnlyAllowed ==
    Spawned => DOMAIN child_env \subseteq sandbox.env_vars

\* C20: execute is never still awaiting a running child after
\* max_execution_time has passed, whether or not the child has closed its
\* streams, and when it raises the timeout error the child has been killed
\* and reaped.
C20_TimeoutBoundsExecute ==
    /\ (te_pc \in {"reading", "wait"} /\ child_alive) =>
          te_elapsed <= sandbox.max_execution_time
    /\ te_error = "timeout" => (~child_alive /\ reaped)

\* The first element of the argv that execute computes from its inputs.
Executable == parse_command_to_argv(command_template, parameters).argv[1]

\* C21: with the sandbox enabled and a non-empty allowlist, a child is started
\* only when the basename of argv[0] is in the allowlist, and execute raises
\* otherwise; the sandbox rejects nothing when the allowlist is empty.
C21_AllowlistGuardsSpawn ==
    /\ (Spawned /\ sandbox.enabled /\ sandbox.allowlisted_commands # {}) =>
          BaseName(argv[1]) \in sandbox.allowlisted_commands
    /\ te_error = "sandbox" =>
          /\ ~Spawned
          /\ sandbox.enabled
          /\ sandbox.allowlisted_commands # {}
          /\ BaseName(Executable) \notin sandbox.allowlisted_commands
    /\ (/\ te_pc # "idle"
        /\ sandbox.enabled
        /\ sandbox.allowlisted_commands # {}
        /\ shlex_split(command_template) # <<>>
        /\ BaseName(Executable) \notin sandbox.allowlisted_commands) =>
          te_error = "sandbox"

\* A command given with its path was started because its basename is listed.
C21_Witness ==
    /\ Spawned
    /\ sandbox.enabled
    /\ sandbox.allowlisted_commands = {<<"rm">>}
    /\ argv[1] # BaseName(argv[1])

\* =========================================================================
\* Properties of the HTTP tool executor
\* =========================================================================

\* C22: a request is only ever sent to a public address, and never to a
\* blocked hostname or a hostname with a blocked suffix, whatever the URL and
\* however the DNS answers change.
C22_NoRequestToInternalAddress ==
    connected_to # None =>
        /\ validate_ip_address(connected_to)
        /\ url.host.kind = "name" =>
              /\ url.host.name \notin blocked_hosts
              /\ ~EndsWithBlockedSuffix(url.host.name)

\* =========================================================================
\* Properties of the definition registry
\* =========================================================================

\* What the reader call recorded in last_read returns from the given indexes.
ReadOf(agts, tls) ==
    [call |-> last_read.call, name |-> last_read.name,
     got |-> IF last_read.call = "get_agent" THEN Get(agts, last_read.name)
             ELSE IF last_read.call = "get_tool" THEN Get(tls, last_read.name)
             ELSE None,
     listed |-> IF last_read.call = "list_agents" THEN Listing(agts)
                ELSE IF last_read.call = "list_tools" THEN Listing(tls)
                ELSE {}]

\* C23: what a reader call returns is what it would return from the index
\* as it was before the reload or from the index the reload ends with; it
\* never reflects an emptied or partly filled index.
C23_ReadersSeeWholeIndex ==
    last_read # <<>> =>
        \/ last_read = ReadOf(pre_agents, pre_tools)
        \/ last_read = ReadOf(Loadable(disk_agents), Loadable(disk_tools))

\* -------------------------------------------------------------------------
\* Properties of the compiled custom workflow
\* -------------------------------------------------------------------------

\* The compiled graph is running or has run.
Compiled == cw_pc \in {"running", "END", "recursion_error"}

\* C24: a phase with on_failure sends the run back to its retry_phase at
\* most max_retries times, and a run of the compiled graph ends by reaching
\* END, never by running out of steps.
C24_RetryEdgeBounded ==
    Compiled =>
        /\ \A i \in 1..Len(cw_schema) :
              cw_graph[i].conditional => cw_retries[i] <= cw_graph[i].max_retries
        /\ cw_pc # "recursion_error"

\* A $phase.output input resolves: the phase comes earlier and declares it.
InputResolves(phases, i, path) ==
    IF path[1] \in DOMAIN Context
    THEN Resolves(path)
    ELSE \E j \in 1..(i - 1) :
            /\ phases[j].name = path[1]
            /\ Len(path) = 2
            /\ path[2] \in phases[j].outputs

\* Every reference of the workflow resolves.
AllReferencesResolve(phases) ==
    \A i \in 1..Len(phases) :
        /\ phases[i].model.is_ref => Resolves(phases[i].model.path)
        /\ (phases[i].on_failure.present /\ phases[i].on_failure.max_retries.is_ref)
              => Resolves(phases[i].on_failure.max_retries.path)
        /\ \A k \in 1..Len(phases[i].inputs) :
              InputResolves(phases, i, phases[i].inputs[k])

\* C28: a workflow with a reference that does not resolve is not compiled
\* into a graph, and none of its phases runs.
C28_UnresolvedReferenceFailsCompile ==
    ~AllReferencesResolve(cw_schema) => (~Compiled /\ cw_steps = 0)

\* -------------------------------------------------------------------------
\* Properties of the phase agent
\* -------------------------------------------------------------------------

\* C25: one invocation of a phase agent makes at most max_iterations LLM
\* calls, however often the LLM asks for tools.
C25_LlmCallsWithinMaxIterations == llm_calls <= max_iterations

\* -------------------------------------------------------------------------
\* Properties of the engine's gates
\* -------------------------------------------------------------------------

\* ApprovalQueue.request_approval has been called.
ApprovalRequested == rq_pc # "idle" \/ rq_id # 0 \/ requests # <<>>

\* C26: a phase whose human_approval flag is true executes only after an
\* approval request was issued, and a run can end with status cancelled.
C26_ApprovalBeforeFlaggedPhase ==
    \A i \in 1..Len(executed) :
        human_approval[executed[i].phase] => ApprovalRequested

\* C27: once the cost of the run has reached budget_limit_usd no further
\* phase executes.
C27_NoPhaseOverBudget ==
    [][spent >= state_budget_limit_usd => executed' = executed]_vars

\* -------------------------------------------------------------------------
\* Properties of the order of the default pipeline
\* -------------------------------------------------------------------------

\* The phase that may execute right after phase a.
MayFollow(a, b) ==
    \/ a = "frame" /\ b = "architect"
    \/ a = "architect" /\ b = "build"
    \/ a = "build" /\ b = "evaluate"
    \/ a = "evaluate" /\ b \in {"build", "release"}

\* C29: the phases of a run execute one at a time in the order frame,
\* architect, one or more (build, evaluate) pairs, release; release executes
\* at most once, and a run that has ended has executed it.
C29_PipelineOrder ==
    /\ Len(executed) >= 1 => executed[1].phase = "frame"
    /\ \A i \in 1..(Len(executed) - 1) :
          MayFollow(executed[i].phase, executed[i + 1].phase)
    /\ Cardinality(Executions("release")) <= 1
    /\ pc \in {"frame", "architect", "build", "evaluate", "release"} =>
          \/ Len(executed) = 0 /\ pc = "frame"
          \/ Len(executed) >= 1 /\ MayFollow(executed[Len(executed)].phase, pc)
    /\ pc \in {"END", "returned"} =>
          /\ Len(executed) >= 5
          /\ executed[Len(executed)].phase = "release"

\* A run that went through build and evaluate twice has returned.
C29_Witness ==
    /\ pc = "returned"
    /\ Cardinality(Executions("build")) = 2
    /\ Cardinality(Executions("evaluate")) = 2
    /\ Cardinality(Executions("release")) = 1

\* C30: with max_retries = 0 a NO_GO from evaluate leads to release, and
\* build executes exactly once in the run.
C30_ZeroRetriesBuildsOnce ==
    max_retries = 0 =>
        /\ Cardinality(Executions("build")) <= 1
        /\ (Len(executed) >= 1 /\ executed[Len(executed)].phase = "evaluate"
              /\ evaluation_result = "NO_GO") => pc = "release"
        /\ pc \in {"END", "returned"} => Cardinality(Executions("build")) = 1

\* A run with max_retries = 0 has returned after a NO_GO.
C30_Witness ==
    /\ max_retries = 0
    /\ pc = "returned"
    /\ evaluation_result = "NO_GO"
    /\ Cardinality(Executions("build")) = 1
    /\ Cardinality(Executions("release")) = 1

\* -------------------------------------------------------------------------
\* Further properties of the cost tracker
\* -------------------------------------------------------------------------

\* C31: with budget_limit_usd <= 0 no add_usage call raises a budget error,
\* is_within_budget() is true and is_warning() is false, whatever was used.
C31_NoLimitNoChecks ==
    budget_limit_usd <= 0 =>
        /\ ct_raised = None
        /\ is_within_budget(total_cost_usd, budget_limit_usd)
        /\ ~is_warning(total_cost_usd, budget_limit_usd)

\* A tracker without a limit has recorded paid usage twice.
C31_Witness ==
    /\ budget_limit_usd <= 0
    /\ AfterAddUsage
    /\ Len(events) >= 2
    /\ total_cost_usd > 0

\* Tokens of the recorded events.
RECURSIVE SumTokens(_)
SumTokens(evs) ==
    IF evs = <<>> THEN 0
    ELSE SumTokens(SubSeq(evs, 1, Len(evs) - 1))
         + evs[Len(evs)].input_tokens + evs[Len(evs)].output_tokens

\* C38: the events and the totals account for every add_usage call made,
\* the calls that raised a budget error included.
C38_RaisingCallsAreRecorded ==
    /\ Len(events) = usage_calls
    /\ total_cost_usd = SumCost(events)
    /\ total_tokens = SumTokens(events)

\* A call that raised BudgetApprovalRequired left its event and cost behind.
C38_Witness ==
    /\ AfterAddUsage
    /\ ct_raised = "BudgetApprovalRequired"
    /\ usage_calls >= 1
    /\ events[Len(events)].cost_usd > 0
    /\ total_cost_usd = SumCost(events)

\* -------------------------------------------------------------------------
\* Properties of the run options
\* -------------------------------------------------------------------------

\* C32: a phase named in skip_phases, which run_workflow disables, is never
\* executed during the run.
C32_SkippedPhaseNeverRuns ==
    \A i \in 1..Len(executed) : enabled(executed[i].phase)

\* -------------------------------------------------------------------------
\* Properties of the retry counter
\* -------------------------------------------------------------------------

\* This step is an execution of the named node.
Executes(phase) ==
    /\ Len(executed') = Len(executed) + 1
    /\ executed'[Len(executed')].phase = phase

\* C37: retry_count never decreases and changes only in evaluate: an
\* evaluate execution adds exactly 1 when its outcome is NO_GO or an
\* exception and nothing when its outcome is GO.
C37_RetryCountOnlyInEvaluate ==
    [][/\ retry_count' >= retry_count
       /\ retry_count' # retry_count => Executes("evaluate")
       /\ Executes("evaluate") =>
            LET kind == OutcomeKind(EvalOutcomeAt(Cardinality(Executions("evaluate")) + 1))
            IN retry_count' = IF kind = "GO" THEN retry_count ELSE retry_count + 1
      ]_vars

\* A run whose evaluate raised and then said GO has returned.
C37_Witness ==
    /\ pc = "returned"
    /\ retry_count = 1
    /\ evaluation_result = "GO"
    /\ Raised("evaluate")
    /\ Cardinality(Executions("evaluate")) = 2

\* -------------------------------------------------------------------------
\* Further properties of the approval queue
\* -------------------------------------------------------------------------

\* request_approval has returned.
CallReturned == rq_pc = "done" /\ returned # <<>>

\* The status that goes with a decision.
StatusOf(decision) ==
    CASE decision = "approve" -> "approved"
      [] decision = "timeout" -> "timeout"
      [] decision = "cancelled" -> "cancelled"
      [] OTHER -> "rejected"

\* C39: when request_approval returns, the status of its request matches the
\* decision it returns, whichever path produced the response.
C39_StatusMatchesDecision ==
    CallReturned =>
        requests[rq_id].status = StatusOf(returned[Len(returned)].decision)

\* C40: after request_approval has returned, its request is not pending and
\* no response for its id is left in the queue; a later submit_response or
\* cancel_request for that id changes nothing.
C40_NothingLeftAfterReturn ==
    /\ [](CallReturned => (rq_id \notin pending_requests
                           /\ rq_id \notin DOMAIN responses))
    /\ [][(CallReturned /\ (submit_response \/ cancel_request))
             => UNCHANGED <<requests, pending_requests, responses>>]_vars

\* -------------------------------------------------------------------------
\* Properties of saving and deleting definitions
\* -------------------------------------------------------------------------

\* C35: after any sequence of save and delete calls the in-memory index is
\* an index that reload() would build from the directories at that moment.
C35_IndexMatchesReload ==
    /\ saved_agents \in Discoverable(agent_files)
    /\ saved_tools \in Discoverable(tool_files)

\* -------------------------------------------------------------------------
\* Properties of the log manager
\* -------------------------------------------------------------------------

\* C34: after start_workflow(id), any log calls and end_workflow(status),
\* get_workflow_log(id) returns a log with that status whose entries are the
\* entries recorded at or above the minimum level, each once and in order;
\* while the workflow runs no recorded entry is removed or reordered.
C34_LogIsWhatWasRecorded ==
    /\ [](ended # <<>> =>
            LET got == get_workflow_log(ended[1].workflow_id)
            IN /\ got # <<>>
               /\ got[1].status = ended[1].status
               /\ got[1].entries = recorded)
    /\ [][log => /\ SubSeq(recorded', 1, Len(recorded)) = recorded
                  /\ current_workflow'[1].entries = recorded']_vars

\* A log with a filtered and a recorded entry, one of them with a duration
\* of 0 ms, was ended and written.
C34_Witness ==
    /\ ended # <<>>
    /\ ended[1].status = "failed"
    /\ log_level = "info"
    /\ Len(recorded) = 3
    /\ recorded[2].duration_ms = <<0>>
    /\ get_workflow_log(ended[1].workflow_id)[1].entries = recorded

\* The persisted logs that match the filters of the call recorded in listed.
Matching ==
    {x \in DOMAIN log_files :
        /\ listed[1].status # <<>> => log_files[x].status = listed[1].status[1]
        /\ listed[1].work_id # <<>> => log_files[x].work_id = listed[1].work_id[1]}

\* C36: list_workflow_logs returns min(limit, m) logs, all of them matching
\* the filters, where m is the number of persisted logs that match.
C36_ListReturnsUpToLimitMatches ==
    listed # <<>> =>
        /\ Len(listed[1].logs) = Min(listed[1].limit, Cardinality(Matching))
        /\ Range(listed[1].logs) \subseteq Matching

\* -------------------------------------------------------------------------
\* Properties of the checkpointer
\* -------------------------------------------------------------------------

\* C33: when the configuration selects a file or network backend, the state
\* the engine checkpointed for a thread is what get returns for it in a
\* fresh process: the checkpointer in use is never an in-memory store.
C33_CheckpointSurvivesRestart ==
    (checkpoint_config.backend \in DurableBackends /\ checkpointer # "none") =>
        /\ checkpointer # "memory"
        /\ \A t \in DOMAIN last_put : checkpoint_get(t) = <<last_put[t]>>

Spec == SpecWorkflow

====
